---- MODULE Spec2Model ----
(***************************************************************************)
(* Model of the Ethics-AI-toolkit audit pipeline (src/src/pipeline.py) and *)
(* of the parts of its engines the pipeline's result depends on.           *)
(*                                                                         *)
(* Python values are modelled as follows.                                  *)
(*   - a dict is a function whose DOMAIN is its key set; {} is EmptyDict;  *)
(*   - a string that the code searches or lower-cases is a sequence of     *)
(*     one-character strings; a string that is only stored or compared is  *)
(*     a TLA+ string;                                                      *)
(*   - the hallucination rate, a float in [0,1], is an integer number of   *)
(*     hundredths (0.2 is 20); the compliance score, a float with integral *)
(*     values, is an integer.                                              *)
(***************************************************************************)
EXTENDS Integers, Sequences, FiniteSets

VARIABLES
    FAIRLEARN_AVAILABLE, \* bias_detector.py module flag, fixed at import
    pc,                  \* position of the caller / of run_full_audit
    dataset,             \* the caller's DataFrame object (shared by the stages)
    X_processed,         \* the caller's processed feature matrix
    call,                \* the other arguments of the running run_full_audit
    given,               \* history: dataset and X_processed as passed at the call
    audit_results,       \* run_full_audit's local dict
    results,             \* self.results
    bias_detector,       \* self.bias_detector
    explainer,           \* self.explainer
    order,               \* history: stages completed by the current/last call
    exc,                 \* history: message of the exception each stage raised
    clock,               \* the wall clock read by pd.Timestamp.now()
    score,               \* <<value>> returned by generate_compliance_score when
                         \* it was the caller's last operation, else <<>>
    previous,            \* history: <<the call that returned before the last
                         \* one>>: its inputs, the dict it returned (as it was
                         \* at the return and as that object is now), its score
    frame,               \* a DataFrame handed to an engine called directly
    attrs,               \* the arguments of a direct BiasDetector call
    printed,             \* what a direct basic_bias_analysis call printed
    privacy_out          \* outcome of a direct PrivacyAnalyzer call

vars == <<FAIRLEARN_AVAILABLE, pc, dataset, X_processed, call, given,
          audit_results, results, bias_detector, explainer, order, exc,
          clock, score, previous, frame, attrs, printed, privacy_out>>


----------------------------------------------------------------------------
(* Bounds of the model. *)

\* Largest wall-clock reading.
MaxClock == 1

\* Longest issue list handed to generate_compliance_score by SpecScore.
MaxIssues == 3

----------------------------------------------------------------------------
(* Strings as character sequences. *)

UPPERCASE == <<"A","B","C","D","E","F","G","H","I","J","K","L","M",
               "N","O","P","Q","R","S","T","U","V","W","X","Y","Z">>

LOWERCASE == <<"a","b","c","d","e","f","g","h","i","j","k","l","m",
               "n","o","p","q","r","s","t","u","v","w","x","y","z">>

\* str.lower() on one character.
LowerChar(c) ==
    IF \E i \in 1..Len(UPPERCASE) : UPPERCASE[i] = c
    THEN LOWERCASE[CHOOSE i \in 1..Len(UPPERCASE) : UPPERCASE[i] = c]
    ELSE c

\* str.lower()
Lower(s) == [i \in 1..Len(s) |-> LowerChar(s[i])]

\* Python's  k in s  on strings: k occurs in s as a contiguous substring.
Contains(s, k) ==
    \E i \in 1..(Len(s) - Len(k) + 1) : SubSeq(s, i, i + Len(k) - 1) = k

\* 'Potential bias detected'
ISSUE_BIAS == <<"P","o","t","e","n","t","i","a","l"," ","b","i","a","s"," ","d","e","t","e","c","t","e","d">>

\* 'PII detected in dataset'
ISSUE_PII == <<"P","I","I"," ","d","e","t","e","c","t","e","d"," ","i","n"," ","d","a","t","a","s","e","t">>

\* 'High hallucination rate detected'
ISSUE_HALLUCINATION == <<"H","i","g","h"," ","h","a","l","l","u","c","i","n","a","t","i","o","n"," ","r","a","t","e"," ","d","e","t","e","c","t","e","d">>

KW_BIAS == <<"b","i","a","s">>

KW_PII == <<"p","i","i">>

KW_HALLUCINATION == <<"h","a","l","l","u","c","i","n","a","t","i","o","n">>

\* the text _generate_summary looks for in the bias payload
KW_WARNING == <<"W","A","R","N","I","N","G">>

----------------------------------------------------------------------------
(* Dicts. *)

EmptyDict == [k \in {} |-> 0]

\* d.get(k, default)
Get(d, k, default) == IF k \in DOMAIN d THEN d[k] ELSE default

----------------------------------------------------------------------------
(* _generate_summary *)

\* 0.2, in hundredths
HALLUCINATION_THRESHOLD == 20

RECOMMENDATIONS_ISSUES ==
    << "Review and address identified bias patterns",
       "Implement data anonymization for PII",
       "Add fact-checking mechanisms for model outputs",
       "Consider retraining models with bias mitigation techniques" >>

RECOMMENDATIONS_CLEAN ==
    << "Continue monitoring for emerging ethical issues",
       "Regular re-auditing recommended",
       "Consider implementing continuous monitoring" >>

\* 'error' not in bias_results and any('WARNING' in str(v) for v in values):
\* a payload value is held as its str() rendering.
BiasWarningPresent(ar) ==
    LET bias_results == Get(ar, "bias_analysis", EmptyDict)
    IN  /\ "error" \notin DOMAIN bias_results
        /\ \E k \in DOMAIN bias_results : Contains(bias_results[k], KW_WARNING)

\* (variant) a privacy entry that is an error marker counts as a finding
PiiPresentOrFailed(ar) ==
    DOMAIN Get(ar, "privacy_analysis", EmptyDict) # {}

\* truthiness of privacy_results.get('pii_detected'): a non-empty dict
PiiPresent(ar) ==
    LET privacy_results == Get(ar, "privacy_analysis", EmptyDict)
    IN  /\ "pii_detected" \in DOMAIN privacy_results
        /\ DOMAIN privacy_results["pii_detected"] # {}

\* hallucination_results.get('summary', {}).get('hallucination_rate', 0)
HallucinationRate(ar) ==
    LET hallucination_results == Get(ar, "hallucination_analysis", EmptyDict)
        s == Get(hallucination_results, "summary", EmptyDict)
    IN  Get(s, "hallucination_rate", 0)

\* (variant) the issue list of the summary in self.results is carried into
\* the next summary
InitialSummaryAccumulating(now) ==
    [ timestamp       |-> now,
      overall_status  |-> "PASSED",
      issues_found    |->
          LET kept == Get(Get(results, "summary", EmptyDict), "issues_found", <<>>)
          IN  IF Len(kept) < MaxIssues THEN kept ELSE <<>>,
      recommendations |-> <<>>,
      risk_level      |-> "LOW" ]

\* the summary literal; the timestamp is the clock reading
InitialSummary(now) ==
    [ timestamp       |-> now,
      overall_status  |-> "PASSED",
      issues_found    |-> <<>>,
      recommendations |-> <<>>,
      risk_level      |-> "LOW" ]

CheckBias(summary, ar) ==
    IF BiasWarningPresent(ar)
    THEN [summary EXCEPT !.issues_found   = Append(@, ISSUE_BIAS),
                         !.overall_status = "FAILED",
                         !.risk_level     = "HIGH"]
    ELSE summary

\* (variant) PII findings set the risk tier HIGH
CheckPrivacyTierHigh(summary, ar) ==
    IF PiiPresent(ar)
    THEN [summary EXCEPT !.issues_found = Append(@, ISSUE_PII),
                         !.risk_level   = "HIGH"]
    ELSE summary

CheckPrivacy(summary, ar) ==
    IF PiiPresent(ar)
    THEN [summary EXCEPT !.issues_found = Append(@, ISSUE_PII),
                         !.risk_level   = "MEDIUM"]
    ELSE summary

\* (variant) the threshold test is  >=  instead of  >
CheckHallucinationInclusive(summary, ar) ==
    IF HallucinationRate(ar) >= HALLUCINATION_THRESHOLD
    THEN [summary EXCEPT !.issues_found   = Append(@, ISSUE_HALLUCINATION),
                         !.overall_status = "FAILED"]
    ELSE summary

CheckHallucination(summary, ar) ==
    IF HallucinationRate(ar) > HALLUCINATION_THRESHOLD
    THEN [summary EXCEPT !.issues_found   = Append(@, ISSUE_HALLUCINATION),
                         !.overall_status = "FAILED"]
    ELSE summary

\* (variant) the issue recommendations are given whatever was found
RecommendUnconditional(summary) ==
    [summary EXCEPT !.recommendations = RECOMMENDATIONS_ISSUES]

Recommend(summary) ==
    [summary EXCEPT !.recommendations =
        IF summary.issues_found # <<>> THEN RECOMMENDATIONS_ISSUES
                                       ELSE RECOMMENDATIONS_CLEAN]

generate_summary(ar, now) ==
    Recommend(CheckHallucination(CheckPrivacy(CheckBias(InitialSummary(now), ar), ar), ar))

----------------------------------------------------------------------------
(* generate_compliance_score *)

START_SCORE == 100

BIAS_WEIGHT == 40

PII_WEIGHT == 20

HALLUCINATION_WEIGHT == 30

\* (variant) the keywords are tested against the issue text as written
IssueKeyCaseSensitive(issue) == issue

\* issue.lower(), as the loop body applies it before each keyword test
IssueKey(issue) == Lower(issue)

\* (variant) three separate ifs: every keyword found deducts its weight
DeductionEveryKeyword(issue) ==
    (IF Contains(IssueKey(issue), KW_BIAS) THEN BIAS_WEIGHT ELSE 0)
    + (IF Contains(IssueKey(issue), KW_PII) THEN PII_WEIGHT ELSE 0)
    + (IF Contains(IssueKey(issue), KW_HALLUCINATION) THEN HALLUCINATION_WEIGHT ELSE 0)

\* one pass of the loop body: the if / elif / elif chain
Deduction(issue) ==
    IF Contains(IssueKey(issue), KW_BIAS) THEN BIAS_WEIGHT
    ELSE IF Contains(IssueKey(issue), KW_PII) THEN PII_WEIGHT
    ELSE IF Contains(IssueKey(issue), KW_HALLUCINATION) THEN HALLUCINATION_WEIGHT
    ELSE 0

RECURSIVE DeductAll(_, _)
\* the for loop: score after the remaining issues have been deducted
DeductAll(issues, s) ==
    IF issues = <<>> THEN s
    ELSE DeductAll(Tail(issues), s - Deduction(Head(issues)))

\* (variant) the score is returned without the floor
FloorScoreMissing(s) == s

\* max(0.0, score)
FloorScore(s) == IF s >= 0 THEN s ELSE 0

\* (variant) every stage entry that is an error marker costs ten points
generate_compliance_score_failed_stages(res) ==
    IF DOMAIN res = {} THEN 0
    ELSE FloorScore(DeductAll(
            Get(Get(res, "summary", EmptyDict), "issues_found", <<>>),
            START_SCORE
              - 10 * Cardinality({k \in DOMAIN res \ {"summary", "dataset_info"} :
                                     "error" \in DOMAIN res[k]})))

\* (variant) the score of an empty self.results is computed like any other
generate_compliance_score_unguarded(res) ==
    FloorScore(DeductAll(
        Get(Get(res, "summary", EmptyDict), "issues_found", <<>>),
        START_SCORE))

generate_compliance_score(res) ==
    IF DOMAIN res = {} THEN 0
    ELSE FloorScore(DeductAll(
            Get(Get(res, "summary", EmptyDict), "issues_found", <<>>),
            START_SCORE))

----------------------------------------------------------------------------
(* What an engine call does: it raises an exception or returns a value. *)

Raise(msg) == [raised |-> TRUE, msg |-> msg, value |-> EmptyDict]

Return(v) == [raised |-> FALSE, msg |-> "", value |-> v]

----------------------------------------------------------------------------
(* The caller's inputs.                                                    *)
(*                                                                         *)
(* A dataset is held by the features the engines' results depend on: its   *)
(* row count, the group labels of the protected attribute "segment" (as    *)
(* they are printed in a per-group table), the approval rate of each group *)
(* (in ten-thousandths) and the number of e-mail addresses in its text     *)
(* column "note".  Its columns are segment, approved (the numeric 0/1      *)
(* label) and note.                                                        *)

COLUMNS == <<"segment", "approved", "note">>

EmptyDataset == [rows |-> 0, groups |-> <<>>, approval_rates |-> <<>>, emails |-> 0]

\* the groups are A and B, or a group whose label reads WARNING and B; both
\* are approved at the rate 0.5, or the first at 0.25 and the second at 0.5
Datasets ==
    {EmptyDataset} \cup
    { [rows |-> 10, groups |-> g, approval_rates |-> r, emails |-> e] :
        g \in { << <<"A">>, <<"B">> >>,
                << <<"W","A","R","N","I","N","G">>, <<"B">> >> },
        r \in { <<5000, 5000>>, <<2500, 5000>> },
        e \in {0, 1} }

\* the processed feature matrix: row count and (numeric) feature columns
Matrices == { [rows |-> r, columns |-> <<"income", "tenure">>] : r \in {0, 10} }

\* what the hallucination detector does with the prompts of one call
DetectorReplies ==
    { [fault |-> FALSE, rate |-> 20], [fault |-> FALSE, rate |-> 21],
      [fault |-> TRUE, rate |-> 0] }

NoReply == [fault |-> FALSE, rate |-> 0]

Calls ==
    { c \in [ label_column         : {"approved"},
              protected_attributes : {<<"segment">>, <<"race">>},
              model                : {"LogisticRegression", "Opaque"},
              test_prompts         : {<<>>, <<"Who wrote Hamlet?">>},
              reply                : DetectorReplies \cup {NoReply} ] :
        (c.test_prompts = <<>>) <=> (c.reply = NoReply) }

----------------------------------------------------------------------------
(* BiasDetector *)

\* BiasDetector.__init__: self.dataset is a copy of the caller's frame
BiasDetector(d, label_column, protected_attributes, X, y) ==
    [ dataset              |-> d,
      label_column         |-> label_column,
      protected_attributes |-> protected_attributes,
      X_processed          |-> X,
      y_processed          |-> y,
      results              |-> EmptyDict ]

InColumns(attr) == \E i \in 1..Len(COLUMNS) : COLUMNS[i] = attr

\* basic_bias_analysis prints its tables, ratio and warning and stores
\* nothing in self.results; grouping by a column the frame lacks raises
\* KeyError, whose str() is the quoted column name.
basic_bias_analysis(det) ==
    IF \E i \in 1..Len(det.protected_attributes) :
            ~InColumns(det.protected_attributes[i])
    THEN Raise("'race'")
    ELSE Return(det.results)

RECURSIVE JoinLines(_)
JoinLines(labels) ==
    IF labels = <<>> THEN <<>>
    ELSE <<" ">> \o Head(labels) \o JoinLines(Tail(labels))

\* str() of the per-group frame mf.by_group: the metric's column header and
\* one line per group, starting with the group's label
StrByGroup(labels) ==
    <<"s","e","l","e","c","t","i","o","n","_","r","a","t","e">> \o JoinLines(labels)

\* fairlearn_analysis, called with model=None: a no-op without fairlearn;
\* otherwise it splits X_processed (train_test_split raises ValueError on
\* zero samples), aligns the frame to the held-out rows (KeyError when the
\* frame lacks them) and stores two results per protected attribute, the
\* second a float (here 0.25).
fairlearn_analysis(det, available) ==
    IF ~available THEN Return(det.results)
    ELSE IF det.X_processed.rows = 0
         THEN Raise("With n_samples=0, the resulting train set will be empty")
    ELSE IF det.dataset.rows = 0
         THEN Raise("index not found in dataset")
    ELSE Return([ segment_fairlearn_metrics       |-> StrByGroup(det.dataset.groups),
                  segment_demographic_parity_diff |-> <<"0",".","2","5">> ])

\* (variant) the detector works on the caller's frame itself and its row
\* filtering (dropna) empties that frame
FrameAfterBiasDetectorInPlace(d, det) ==
    IF basic_bias_analysis(det).raised THEN d ELSE EmptyDataset

\* the caller's frame after the detector has run: __init__ and
\* basic_bias_analysis write to copies only
FrameAfterBiasDetector(d, det) == d

\* generate_report: basic analysis, then fairlearn analysis, then
\* self.results
generate_report(det, available) ==
    IF basic_bias_analysis(det).raised THEN basic_bias_analysis(det)
    ELSE fairlearn_analysis(det, available)

----------------------------------------------------------------------------
(* ModelExplainer, on the path without a SHAP explainer *)

\* _basic_feature_importance: the model's native coefficients, or an error
\* dict when it exposes none
basic_feature_importance(model, X) ==
    IF model = "LogisticRegression"
    THEN [income |-> 70, tenure |-> 30]
    ELSE [error |-> "No feature importance available"]

global_explanation(model, X) == basic_feature_importance(model, X)

\* generate_text_explanation: the outcome sentence and, when a feature
\* importance is available, the key factors
generate_text_explanation(model, X) ==
    IF "error" \in DOMAIN basic_feature_importance(model, X)
    THEN "This loan application was approved. Key factors: (none)"
    ELSE "This loan application was approved. Key factors: income, tenure"

\* the body of the pipeline's explainability try block; sampling one row of
\* an empty frame raises ValueError
explainability_analysis(model, X) ==
    IF X.rows = 0
    THEN Raise("a must be greater than 0 unless no samples are taken")
    ELSE Return([ global          |-> global_explanation(model, X),
                  local_example   |-> generate_text_explanation(model, X),
                  feature_columns |-> X.columns ])

----------------------------------------------------------------------------
(* PrivacyAnalyzer.analyze_dataset *)

\* _detect_pii: column -> findings, for the text column note
detect_pii(d) ==
    IF d.emails > 0
    THEN [note |-> <<[kind |-> "email", instances |-> d.emails]>>]
    ELSE EmptyDict

\* _generate_recommendations, for a frame without quasi-identifier column
\* names and without a highly unique column
privacy_recommendations(pii) ==
    (IF DOMAIN pii # {}
     THEN <<"Remove or encrypt detected PII before model training",
            "Consider data anonymization techniques">>
     ELSE <<>>)
    \o <<"Implement differential privacy for model training",
         "Use secure multi-party computation for sensitive data",
         "Regular privacy audits and monitoring">>

\* analyze_dataset: _analyze_uniqueness divides by len(df) and raises
\* ZeroDivisionError on a frame without rows
analyze_dataset(d) ==
    IF d.rows = 0 THEN Raise("division by zero")
    ELSE Return([ pii_detected      |-> detect_pii(d),
                  quasi_identifiers |-> <<>>,
                  uniqueness_risk   |-> [rows |-> d.rows],
                  recommendations   |-> privacy_recommendations(detect_pii(d)) ])

\* (variant) the analyzer blanks the PII it finds in the frame it is given
FrameAfterAnalyzeDatasetRedacted(d) == [d EXCEPT !.emails = 0]

\* the caller's frame after analyze_dataset: the analyzer reads the frame
\* and builds its strings, sets and de-duplicated frames as new objects
FrameAfterAnalyzeDataset(d) == d

----------------------------------------------------------------------------
(* HallucinationDetector.comprehensive_analysis *)

comprehensive_analysis(test_prompts, reply) ==
    IF reply.fault THEN Raise("generation failed")
    ELSE Return([ summary |-> [ hallucination_rate |-> reply.rate,
                                overall_quality    |-> "reported" ],
                  individual_analyses |-> test_prompts ])

\* the body of the pipeline's hallucination try block
hallucination_analysis(test_prompts, reply) ==
    IF test_prompts # <<>>
    THEN comprehensive_analysis(test_prompts, reply)
    ELSE Return([skipped |-> "No test prompts provided"])

----------------------------------------------------------------------------
(* EthicsToolkitPipeline *)

STAGES == <<"bias", "explainability", "privacy", "hallucination", "summary">>

\* the key of audit_results a stage writes
KeyOf(stage) ==
    CASE stage = "bias"           -> "bias_analysis"
      [] stage = "explainability" -> "explainability_analysis"
      [] stage = "privacy"        -> "privacy_analysis"
      [] stage = "hallucination"  -> "hallucination_analysis"
      [] stage = "summary"        -> "summary"

\* (variant) the except clause adds the message beside a partial payload
ErrorMarkerBesidePayload(msg) == [error |-> msg, partial |-> "partial results"]

\* the except clause of a stage: the error marker {'error': str(e)}
ErrorMarker(msg) == [error |-> msg]

\* (variant) a raising stage leaves its key as it was initialised
RecordedDropsFailure(out) == out.value

\* what a stage's try/except statement stores under its key
Recorded(out) == IF out.raised THEN ErrorMarker(out.msg) ELSE out.value

\* (variant) a raising stage ends the analyses: control goes to the summary
AfterStageAbortOnFailure(stage, raised) ==
    IF raised THEN "summary"
    ELSE CASE stage = "bias"           -> "explainability"
           [] stage = "explainability" -> "privacy"
           [] stage = "privacy"        -> "hallucination"
           [] stage = "hallucination"  -> "summary"

\* where control goes after a stage's try/except statement: to the next
\* stage, whether the stage raised or not
AfterStage(stage, raised) ==
    CASE stage = "bias"           -> "explainability"
      [] stage = "explainability" -> "privacy"
      [] stage = "privacy"        -> "hallucination"
      [] stage = "hallucination"  -> "summary"

NoExceptions == [s \in {"bias", "explainability", "privacy", "hallucination"} |-> <<>>]

\* history: the message a stage's engine raised, <<>> when it returned
Raised(out) == IF out.raised THEN <<out.msg>> ELSE <<>>

\* the audit_results literal at the top of run_full_audit
NewAuditResults(d, c) ==
    [ dataset_info |-> [ shape   |-> <<d.rows, Len(COLUMNS)>>,
                         columns |-> COLUMNS,
                         label_column |-> c.label_column,
                         protected_attributes |-> c.protected_attributes ],
      bias_analysis           |-> EmptyDict,
      explainability_analysis |-> EmptyDict,
      privacy_analysis        |-> EmptyDict,
      hallucination_analysis  |-> EmptyDict,
      summary                 |-> EmptyDict ]

\* (variant) run_full_audit fills the dict it returned before again
ObjectAfterAuditInPlace(object, new) == new

\* the dict an earlier call returned, after a later run_full_audit has built
\* new: the audit_results literal is a new dict and self.results is rebound
\* to it, so the earlier dict is left as it was
ObjectAfterAudit(object, new) == object

\* the dict an earlier call returned, after generate_compliance_score, which
\* only reads self.results
ObjectAfterScore(object) == object

\* a caller who makes no direct engine call
DirectInit ==
    /\ frame = [columns |-> <<>>, dtype |-> EmptyDict, index |-> <<>>, rows |-> <<>>]
    /\ attrs = [label_column |-> "approved", protected_attributes |-> <<>>]
    /\ printed = <<>>
    /\ privacy_out = <<>>

\* __init__
PipelineInit ==
    /\ pc = "idle"
    /\ results = EmptyDict
    /\ bias_detector = "None"
    /\ explainer = "None"
    /\ audit_results = EmptyDict
    /\ order = <<>>
    /\ exc = NoExceptions
    /\ score = <<>>

NoCall ==
    [ label_column |-> "approved", protected_attributes |-> <<"segment">>,
      model |-> "LogisticRegression", test_prompts |-> <<>>, reply |-> NoReply ]

Init ==
    /\ FAIRLEARN_AVAILABLE \in BOOLEAN
    /\ PipelineInit
    /\ dataset = EmptyDataset
    /\ X_processed = [rows |-> 0, columns |-> <<"income", "tenure">>]
    /\ call = NoCall
    /\ given = [dataset |-> dataset, X_processed |-> X_processed]
    /\ clock = 0
    /\ previous = <<>>
    /\ DirectInit

\* the caller invokes run_full_audit: the audit_results literal is built
StartAudit ==
    /\ pc = "idle"
    /\ \E d \in Datasets, x \in Matrices, c \in Calls :
          /\ dataset' = d
          /\ X_processed' = x
          /\ call' = c
          /\ given' = [dataset |-> d, X_processed |-> x]
          /\ audit_results' = NewAuditResults(d, c)
    /\ pc' = "bias"
    /\ order' = <<>>
    /\ exc' = NoExceptions
    /\ score' = <<>>
    /\ UNCHANGED <<previous, frame, attrs, printed, privacy_out>>
    /\ UNCHANGED <<FAIRLEARN_AVAILABLE, results, bias_detector, explainer, clock>>

\* 1. Bias Detection
BiasStage ==
    /\ pc = "bias"
    /\ LET det == BiasDetector(dataset, call.label_column,
                               call.protected_attributes, X_processed, "y_processed")
           out == generate_report(det, FAIRLEARN_AVAILABLE)
       IN  /\ bias_detector' = "BiasDetector"
           /\ dataset' = FrameAfterBiasDetector(dataset, det)
           /\ audit_results' = [audit_results EXCEPT !.bias_analysis = Recorded(out)]
           /\ exc' = [exc EXCEPT !.bias = Raised(out)]
           /\ pc' = AfterStage("bias", out.raised)
    /\ order' = Append(order, "bias")
    /\ UNCHANGED <<previous, frame, attrs, printed, privacy_out>>
    /\ UNCHANGED <<FAIRLEARN_AVAILABLE, X_processed, call, given,
                   results, explainer, clock, score>>

\* 2. Explainability
ExplainabilityStage ==
    /\ pc = "explainability"
    /\ LET out == explainability_analysis(call.model, X_processed)
       IN  /\ explainer' = "ModelExplainer"
           /\ audit_results' =
                 [audit_results EXCEPT !.explainability_analysis = Recorded(out)]
           /\ exc' = [exc EXCEPT !.explainability = Raised(out)]
           /\ pc' = AfterStage("explainability", out.raised)
    /\ order' = Append(order, "explainability")
    /\ UNCHANGED <<previous, frame, attrs, printed, privacy_out>>
    /\ UNCHANGED <<FAIRLEARN_AVAILABLE, dataset, X_processed, call, given,
                   results, bias_detector, clock, score>>

\* 3. Privacy Analysis
PrivacyStage ==
    /\ pc = "privacy"
    /\ LET out == analyze_dataset(dataset)
       IN  /\ audit_results' = [audit_results EXCEPT !.privacy_analysis = Recorded(out)]
           /\ exc' = [exc EXCEPT !.privacy = Raised(out)]
           /\ pc' = AfterStage("privacy", out.raised)
    /\ dataset' = FrameAfterAnalyzeDataset(dataset)
    /\ order' = Append(order, "privacy")
    /\ UNCHANGED <<previous, frame, attrs, printed, privacy_out>>
    /\ UNCHANGED <<FAIRLEARN_AVAILABLE, X_processed, call, given,
                   results, bias_detector, explainer, clock, score>>

\* 4. Hallucination Detection
HallucinationStage ==
    /\ pc = "hallucination"
    /\ LET out == hallucination_analysis(call.test_prompts, call.reply)
       IN  /\ audit_results' =
                 [audit_results EXCEPT !.hallucination_analysis = Recorded(out)]
           /\ exc' = [exc EXCEPT !.hallucination = Raised(out)]
           /\ pc' = AfterStage("hallucination", out.raised)
    /\ order' = Append(order, "hallucination")
    /\ UNCHANGED <<previous, frame, attrs, printed, privacy_out>>
    /\ UNCHANGED <<FAIRLEARN_AVAILABLE, dataset, X_processed, call, given,
                   results, bias_detector, explainer, clock, score>>

\* 5. Generate Summary, self.results = audit_results, return audit_results.
\* pd.Timestamp.now() reads a clock that never runs backwards.
SummaryStage ==
    /\ pc = "summary"
    /\ \E now \in clock..MaxClock :
          /\ clock' = now
          /\ audit_results' =
                [audit_results EXCEPT !.summary = generate_summary(audit_results, now)]
    /\ results' = audit_results'
    /\ order' = Append(order, "summary")
    /\ pc' = "idle"
    /\ UNCHANGED <<previous, frame, attrs, printed, privacy_out>>
    /\ UNCHANGED <<FAIRLEARN_AVAILABLE, dataset, X_processed, call, given,
                   bias_detector, explainer, exc, score>>

\* the caller invokes generate_compliance_score
GenerateComplianceScore ==
    /\ pc = "idle"
    /\ score' = <<generate_compliance_score(results)>>
    /\ previous' = [i \in 1..Len(previous) |->
                       [previous[i] EXCEPT !.object = ObjectAfterScore(@)]]
    /\ UNCHANGED <<FAIRLEARN_AVAILABLE, pc, dataset, X_processed, call, given,
                   audit_results, results, bias_detector, explainer, order,
                   exc, clock,
                   frame, attrs, printed, privacy_out>>

Next ==
    \/ StartAudit
    \/ BiasStage
    \/ ExplainabilityStage
    \/ PrivacyStage
    \/ HallucinationStage
    \/ SummaryStage
    \/ GenerateComplianceScore

Spec == Init /\ [][Next]_vars

----------------------------------------------------------------------------
(* run_full_audit as one step, for a caller who audits again and again.    *)

\* the dict run_full_audit returns: the literal, the four try/except
\* statements in order, then the summary
run_full_audit(d, X, c, available, now) ==
    LET det == BiasDetector(d, c.label_column, c.protected_attributes, X, "y_processed")
        ar0 == NewAuditResults(d, c)
        ar1 == [ar0 EXCEPT !.bias_analysis = Recorded(generate_report(det, available))]
        d1  == FrameAfterBiasDetector(d, det)
        ar2 == [ar1 EXCEPT !.explainability_analysis =
                               Recorded(explainability_analysis(c.model, X))]
        ar3 == [ar2 EXCEPT !.privacy_analysis = Recorded(analyze_dataset(d1))]
        ar4 == [ar3 EXCEPT !.hallucination_analysis =
                               Recorded(hallucination_analysis(c.test_prompts, c.reply))]
    IN  [ar4 EXCEPT !.summary = generate_summary(ar4, now)]

\* the messages the four stages of such a call raised
ExceptionsOf(d, X, c, available) ==
    LET det == BiasDetector(d, c.label_column, c.protected_attributes, X, "y_processed")
    IN  [ bias           |-> Raised(generate_report(det, available)),
          explainability |-> Raised(explainability_analysis(c.model, X)),
          privacy        |-> Raised(analyze_dataset(FrameAfterBiasDetector(d, det))),
          hallucination  |-> Raised(hallucination_analysis(c.test_prompts, c.reply)) ]

\* the inputs of a caller who audits repeatedly
RerunDatasets ==
    { EmptyDataset,
      [rows |-> 10, groups |-> << <<"A">>, <<"B">> >>,
       approval_rates |-> <<2500, 5000>>, emails |-> 0],
      [rows |-> 10, groups |-> << <<"W","A","R","N","I","N","G">>, <<"B">> >>,
       approval_rates |-> <<5000, 5000>>, emails |-> 1] }

RerunCalls ==
    { c \in Calls : /\ c.protected_attributes = <<"segment">>
                    /\ c.model = "LogisticRegression"
                    /\ c.reply \in {NoReply, [fault |-> FALSE, rate |-> 21]} }

\* the caller invokes run_full_audit and it returns
RunFullAudit ==
    /\ pc = "idle"
    /\ \E d \in RerunDatasets, x \in Matrices, c \in RerunCalls, now \in clock..MaxClock :
          LET ar == run_full_audit(d, x, c, FAIRLEARN_AVAILABLE, now)
              det == BiasDetector(d, c.label_column, c.protected_attributes, x, "y_processed")
          IN  /\ dataset' = FrameAfterAnalyzeDataset(FrameAfterBiasDetector(d, det))
              /\ X_processed' = x
              /\ call' = c
              /\ given' = [dataset |-> d, X_processed |-> x]
              /\ clock' = now
              /\ audit_results' = ar
              /\ results' = ar
              /\ exc' = ExceptionsOf(d, x, c, FAIRLEARN_AVAILABLE)
              /\ previous' =
                    IF order = STAGES
                    THEN << [ given    |-> given,
                              call     |-> call,
                              returned |-> results,
                              object   |-> ObjectAfterAudit(results, ar),
                              score    |-> score ] >>
                    ELSE <<>>
    /\ bias_detector' = "BiasDetector"
    /\ explainer' = "ModelExplainer"
    /\ order' = STAGES
    /\ score' = <<>>
    /\ UNCHANGED <<FAIRLEARN_AVAILABLE, pc, frame, attrs, printed, privacy_out>>

\* None, passed as dataset
NoDataset == [none |-> TRUE]

\* (variant) a call that raises empties self.results
StoredAfterRaiseCleared(stored) == EmptyDict

\* self.results after a call that raised before line 145
StoredAfterRaise(stored) == stored

\* the caller invokes run_full_audit with None as dataset: dataset.shape in
\* the audit_results literal raises AttributeError outside every try, no
\* stage runs and nothing is assigned
RunFullAuditRaises ==
    /\ pc = "idle"
    /\ \E x \in Matrices, c \in RerunCalls :
          /\ dataset' = NoDataset
          /\ X_processed' = x
          /\ call' = c
          /\ given' = [dataset |-> NoDataset, X_processed |-> x]
    /\ results' = StoredAfterRaise(results)
    /\ previous' =
          IF order = STAGES
          THEN << [ given    |-> given,
                    call     |-> call,
                    returned |-> results,
                    object   |-> results,
                    score    |-> score ] >>
          ELSE previous
    /\ order' = <<>>
    /\ exc' = NoExceptions
    /\ score' = <<>>
    /\ UNCHANGED <<FAIRLEARN_AVAILABLE, pc, audit_results, bias_detector,
                   explainer, clock, frame, attrs, printed, privacy_out>>

NextRerun ==
    \/ RunFullAudit
    \/ RunFullAuditRaises
    \/ GenerateComplianceScore

SpecRerun == Init /\ [][NextRerun]_vars

----------------------------------------------------------------------------
(* generate_compliance_score as a function of the stored issue list:       *)
(* self.results holds a summary with any issue list of bounded length.     *)

\* the three issue texts of _generate_summary, 'Bias and PII found' (an issue
\* text with two keywords) and 'Model drift' (an issue text with no keyword)
IssueStrings ==
    { ISSUE_BIAS, ISSUE_PII, ISSUE_HALLUCINATION,
      <<"B","i","a","s"," ","a","n","d"," ","P","I","I"," ","f","o","u","n","d">>,
      <<"M","o","d","e","l"," ","d","r","i","f","t">> }

IssueLists == UNION { [1..n -> IssueStrings] : n \in 0..MaxIssues }

InitScore ==
    /\ FAIRLEARN_AVAILABLE = TRUE
    /\ pc = "idle"
    /\ \E issues \in IssueLists :
          results = [summary |-> [issues_found |-> issues]]
    /\ audit_results = results
    /\ bias_detector = "None"
    /\ explainer = "None"
    /\ order = <<>>
    /\ exc = NoExceptions
    /\ score = <<>>
    /\ dataset = EmptyDataset
    /\ X_processed = [rows |-> 0, columns |-> <<"income", "tenure">>]
    /\ call = NoCall
    /\ given = [dataset |-> dataset, X_processed |-> X_processed]
    /\ clock = 0
    /\ previous = <<>>
    /\ DirectInit

SpecScore == InitScore /\ [][GenerateComplianceScore]_vars

----------------------------------------------------------------------------
(* Properties of run_full_audit *)

ANALYSES == {"bias", "explainability", "privacy", "hallucination"}

\* a run_full_audit call has returned and no later call has started
Returned == pc = "idle" /\ order = STAGES

Completed(stage) == \E i \in 1..Len(order) : order[i] = stage

IndexOf(stage) == CHOOSE i \in 1..Len(STAGES) : STAGES[i] = stage

C2_FixedStageOrder ==
    /\ Len(order) <= Len(STAGES)
    /\ \A i \in 1..Len(order) : order[i] = STAGES[i]
    /\ pc # "idle" => Len(order) = IndexOf(pc) - 1
    /\ pc = "idle" => order \in {<<>>, STAGES}

\* C2 witness: a call has returned after its explainability and privacy
\* stages raised
C2_Witness_ReturnedAfterFailures ==
    /\ Returned
    /\ exc["explainability"] # <<>>
    /\ exc["privacy"] # <<>>
    /\ exc["hallucination"] = <<>>

\* what each stage records when it runs on the inputs it reads
BiasEntryOn(d, X, c, available) ==
    Recorded(generate_report(
        BiasDetector(d, c.label_column, c.protected_attributes, X, "y_processed"), available))

ExplainabilityEntryOn(X, c) == Recorded(explainability_analysis(c.model, X))

PrivacyEntryOn(d) == Recorded(analyze_dataset(d))

HallucinationEntryOn(c) == Recorded(hallucination_analysis(c.test_prompts, c.reply))

\* C3: the entry a stage has recorded is the one it records on the inputs
\* as they were passed to the call, whatever the other stages did: a stage
\* that raised is recorded as an error marker, and the entries of the other
\* stages are those of a run on the same inputs in which it did not raise.
C3_FailureIsolation ==
    /\ Completed("bias") =>
          /\ audit_results["bias_analysis"] =
                BiasEntryOn(given.dataset, given.X_processed, call, FAIRLEARN_AVAILABLE)
          /\ exc["bias"] # <<>> => DOMAIN audit_results["bias_analysis"] = {"error"}
    /\ Completed("explainability") =>
          audit_results["explainability_analysis"] =
             ExplainabilityEntryOn(given.X_processed, call)
    /\ Completed("privacy") =>
          audit_results["privacy_analysis"] = PrivacyEntryOn(given.dataset)
    /\ Completed("hallucination") =>
          audit_results["hallucination_analysis"] = HallucinationEntryOn(call)

\* C3 witness: a call has returned in which only the bias stage raised and
\* the three other entries hold their payloads
C3_Witness_OnlyBiasRaised ==
    /\ Returned
    /\ exc["bias"] # <<>>
    /\ "global" \in DOMAIN results["explainability_analysis"]
    /\ "pii_detected" \in DOMAIN results["privacy_analysis"]
    /\ "summary" \in DOMAIN results["hallucination_analysis"]

\* the issue list of the returned summary holds this issue text
HasIssue(issue) ==
    \E i \in 1..Len(results["summary"]["issues_found"]) :
        results["summary"]["issues_found"][i] = issue

\* the fields of a stage payload that are themselves dicts
DICT_FIELDS == {"global", "pii_detected", "uniqueness_risk", "summary"}

\* an entry holds an error marker: at its top level or as one of its fields
CarriesErrorMarker(e) ==
    \/ "error" \in DOMAIN e
    \/ \E k \in DOMAIN e \cap DICT_FIELDS : "error" \in DOMAIN e[k]

\* an entry holds data besides an error message
CarriesPayload(e) == DOMAIN e \ {"error"} # {}

\* C4 (as claimed): no entry of a returned result carries an error marker
\* together with payload data.
C4_NeverMarkerWithPayload ==
    Returned =>
       \A s \in ANALYSES :
          ~(CarriesErrorMarker(results[KeyOf(s)]) /\ CarriesPayload(results[KeyOf(s)]))

\* C4 (amended): in a returned result the entry of a stage that raised is
\* the error marker alone, with the key error and no other key, and the
\* entry of a stage that did not raise has no key error at its top level;
\* a field of a payload may still be an error dict.
C4_TopLevelMarkerExclusive ==
    Returned =>
       \A s \in ANALYSES :
          /\ exc[s] # <<>> => DOMAIN results[KeyOf(s)] = {"error"}
          /\ exc[s] = <<>> => "error" \notin DOMAIN results[KeyOf(s)]

\* C4 witness: a returned result whose privacy entry is an error marker and
\* whose explainability entry is a payload holding an error dict as a field
C4_Witness_NestedMarker ==
    /\ Returned
    /\ DOMAIN results["privacy_analysis"] = {"error"}
    /\ "global" \in DOMAIN results["explainability_analysis"]
    /\ "error" \in DOMAIN results["explainability_analysis"]["global"]
    /\ "feature_columns" \in DOMAIN results["explainability_analysis"]

\* C5 (as claimed): PII findings append the PII issue and leave the risk
\* tier at MEDIUM or above; with a bias warning as well the risk tier of the
\* returned summary is HIGH.
C5_PiiNeverDowngradesRisk ==
    (Returned /\ PiiPresent(results)) =>
       /\ HasIssue(ISSUE_PII)
       /\ results["summary"]["risk_level"] \in {"MEDIUM", "HIGH"}
       /\ BiasWarningPresent(results) => results["summary"]["risk_level"] = "HIGH"

\* C6 (as claimed): a bias entry that is no error marker and has a value
\* reading WARNING gives the summary the bias issue, status FAILED and risk
\* tier HIGH; a bias entry that is an error marker gives no bias issue.
C6_BiasWarningFailsHigh ==
    Returned =>
       LET b == results["bias_analysis"]
       IN  /\ ("error" \notin DOMAIN b /\ \E k \in DOMAIN b : Contains(b[k], KW_WARNING)) =>
                 /\ HasIssue(ISSUE_BIAS)
                 /\ results["summary"]["overall_status"] = "FAILED"
                 /\ results["summary"]["risk_level"] = "HIGH"
           /\ "error" \in DOMAIN b => ~HasIssue(ISSUE_BIAS)

\* the hallucination entry of the returned result reports a rate above 0.2
RateAboveThreshold ==
    LET h == results["hallucination_analysis"]
    IN  /\ "summary" \in DOMAIN h
        /\ h["summary"]["hallucination_rate"] > HALLUCINATION_THRESHOLD

\* C7: the returned summary holds the hallucination issue exactly when the
\* hallucination entry reports a rate strictly above 0.2, and then its
\* status is FAILED; otherwise (a rate of at most 0.2, a skipped stage, an
\* error marker) the status is the one the bias check left.
C7_HallucinationIssueIffAbove ==
    Returned =>
       /\ HasIssue(ISSUE_HALLUCINATION) <=> RateAboveThreshold
       /\ RateAboveThreshold => results["summary"]["overall_status"] = "FAILED"
       /\ ~RateAboveThreshold =>
             results["summary"]["overall_status"] =
                IF HasIssue(ISSUE_BIAS) THEN "FAILED" ELSE "PASSED"

\* C7 witness: a returned result whose detector reported 0.21 and whose
\* summary holds the hallucination issue, with no bias issue
C7_Witness_RateAbove ==
    /\ Returned
    /\ RateAboveThreshold
    /\ HasIssue(ISSUE_HALLUCINATION)
    /\ ~HasIssue(ISSUE_BIAS)
    /\ results["summary"]["overall_status"] = "FAILED"

\* C8: a returned summary whose stage outputs hold no bias warning, no PII
\* finding and no hallucination rate above 0.2 is PASSED, LOW, without
\* issues and with the no-issue recommendations; a summary with issues has
\* the issue recommendations.
C8_CleanSummaryAndRecommendations ==
    Returned =>
       LET s == results["summary"]
       IN  /\ (~BiasWarningPresent(results) /\ ~PiiPresent(results) /\ ~RateAboveThreshold) =>
                 /\ s["overall_status"] = "PASSED"
                 /\ s["risk_level"] = "LOW"
                 /\ s["issues_found"] = <<>>
                 /\ s["recommendations"] = RECOMMENDATIONS_CLEAN
           /\ s["issues_found"] # <<>> => s["recommendations"] = RECOMMENDATIONS_ISSUES

\* C8 witness: a returned summary without issues whose stages all returned
C8_Witness_CleanAudit ==
    /\ Returned
    /\ \A st \in ANALYSES : exc[st] = <<>>
    /\ results["summary"]["issues_found"] = <<>>
    /\ results["summary"]["risk_level"] = "LOW"

----------------------------------------------------------------------------
(* Properties of generate_compliance_score *)

StoredIssues == results["summary"]["issues_found"]

\* the positions of the stored issue list whose lower-cased text holds the
\* keyword yes and none of the keywords in no
Matching(yes, no) ==
    { i \in 1..Len(StoredIssues) :
        /\ Contains(Lower(StoredIssues[i]), yes)
        /\ \A k \in no : ~Contains(Lower(StoredIssues[i]), k) }

TotalDeduction ==
    40 * Cardinality(Matching(KW_BIAS, {}))
    + 20 * Cardinality(Matching(KW_PII, {KW_BIAS}))
    + 30 * Cardinality(Matching(KW_HALLUCINATION, {KW_BIAS, KW_PII}))

\* C9: the score is max(0, 100 - the sum of the issues' weights), bias 40,
\* pii 20, hallucination 30, matched without regard to case, every
\* occurrence of an issue deducted again; the issues 'Potential bias
\* detected', 'PII detected in dataset' score 40.
C9_ScoreIsHundredMinusWeights ==
    score # <<>> =>
       /\ score[1] = IF TotalDeduction >= 100 THEN 0 ELSE 100 - TotalDeduction
       /\ StoredIssues = <<ISSUE_BIAS, ISSUE_PII>> => score[1] = 40

\* C9 witness: the score of the issues 'Potential bias detected', 'PII
\* detected in dataset' has been computed
C9_Witness_BiasAndPii ==
    /\ score = <<40>>
    /\ StoredIssues = <<ISSUE_BIAS, ISSUE_PII>>

\* C10: the score lies in 0..100 for every issue list, and is 100 for the
\* empty one.
C10_ScoreWithinRange ==
    score # <<>> =>
       /\ score[1] >= 0
       /\ score[1] <= 100
       /\ StoredIssues = <<>> => score[1] = 100

\* C10 witness: the score of three bias issues, whose weights exceed 100,
\* has been computed
C10_Witness_Floored ==
    /\ score = <<0>>
    /\ StoredIssues = <<ISSUE_BIAS, ISSUE_BIAS, ISSUE_BIAS>>

----------------------------------------------------------------------------
(* BiasDetector.basic_bias_analysis on the cells of a frame.               *)
(*                                                                         *)
(* A DataFrame is its column names, each column's dtype, its index (the    *)
(* label of each row, which the row keeps when other rows are dropped) and *)
(* its rows, a row being a record of cells.  The frames of a direct BiasDetector call  *)
(* have the text columns age and segment and the label column approved,    *)
(* whose cells are 0, 1 or NaN (dtype int64 / float64) or label texts      *)
(* (dtype object).  A rate is an integer number of ten-thousandths, as     *)
(* round(4) leaves it.                                                     *)

\* Most rows of a frame drawn row by row.
MaxRows == 3

\* Most rows of one group in a frame drawn by group sizes.
MaxGroupRows == 5

\* the missing value of a numeric column or statistic
NaN == -1

DIGITS == <<"0","1","2","3","4","5","6","7","8","9">>

RECURSIVE ParseDigits(_, _)
ParseDigits(text, acc) ==
    IF text = <<>> THEN acc
    ELSE LET value == (CHOOSE i \in 1..Len(DIGITS) : DIGITS[i] = Head(text)) - 1
         IN  ParseDigits(Tail(text), 10 * acc + value)

\* pd.to_numeric(errors='coerce') on one text cell: its number, or NaN when
\* the text is no number
to_numeric(text) ==
    IF text # <<>> /\ \A i \in 1..Len(text) : \E k \in 1..Len(DIGITS) : DIGITS[k] = text[i]
    THEN ParseDigits(text, 0)
    ELSE NaN

\* '30' and 'n/a'
AGE_30 == <<"3","0">>

AGE_UNKNOWN == <<"n","/","a">>

LabelCells(dtype) ==
    CASE dtype = "int64"   -> {0, 1}
      [] dtype = "float64" -> {0, 1, NaN}
      [] dtype = "object"  -> {"yes", "no", "maybe"}

BiasFrame(dtype, rows) ==
    [ columns |-> <<"age", "segment", "approved">>,
      dtype   |-> [age |-> "object", segment |-> "object", approved |-> dtype],
      index   |-> [i \in 1..Len(rows) |-> i],
      rows    |-> rows ]

\* every frame of at most MaxRows rows whose label has the given dtype
RowFrames(dtype) ==
    { BiasFrame(dtype, rows) :
        rows \in UNION { [1..n -> [ age      : {AGE_30, AGE_UNKNOWN},
                                    segment  : {"A", "B"},
                                    approved : LabelCells(dtype) ]] :
                         n \in 0..MaxRows } }

\* the frames with an int64 label and two groups A and B of at most
\* MaxGroupRows rows each, given by each group's size and approvals
GroupFrames ==
    { BiasFrame("int64",
         [i \in 1..pa |-> [age |-> AGE_30, segment |-> "A", approved |-> 1]]
         \o [i \in 1..(na - pa) |-> [age |-> <<"4","1">>, segment |-> "A", approved |-> 0]]
         \o [i \in 1..pb |-> [age |-> AGE_30, segment |-> "B", approved |-> 1]]
         \o [i \in 1..(nb - pb) |-> [age |-> <<"4","1">>, segment |-> "B", approved |-> 0]]) :
        <<na, pa, nb, pb>> \in
            { t \in (0..MaxGroupRows) \X (0..MaxGroupRows)
                    \X (0..MaxGroupRows) \X (0..MaxGroupRows) :
                t[2] <= t[1] /\ t[4] <= t[3] } }

BiasAttrs ==
    { [label_column |-> "approved", protected_attributes |-> pa] :
        pa \in {<<"age", "segment">>, <<"segment", "age">>} }

\* DataFrame.copy()
Copy(fr) == fr

\* Series.unique(): the distinct values in first-seen order
RECURSIVE Unique(_, _)
Unique(values, seen) ==
    IF values = <<>> THEN seen
    ELSE Unique(Tail(values),
                IF \E i \in 1..Len(seen) : seen[i] = Head(values)
                THEN seen ELSE Append(seen, Head(values)))

Column(fr, col) == [i \in 1..Len(fr.rows) |-> fr.rows[i][col]]

\* lines 43-51: a text label with exactly two distinct values is mapped to
\* 0 (first seen) and 1; a text label with another number of distinct
\* values cannot be resolved
LabelResolvable(fr, label) ==
    fr.dtype[label] = "object" => Len(Unique(Column(fr, label), <<>>)) = 2

MapLabel(fr, label) ==
    IF fr.dtype[label] # "object" THEN fr
    ELSE LET unique_labels == Unique(Column(fr, label), <<>>)
         IN  [ fr EXCEPT
                 !.dtype = [@ EXCEPT ![label] = "int64"],
                 !.rows  = [i \in 1..Len(fr.rows) |->
                              [fr.rows[i] EXCEPT ![label] =
                                  IF @ = unique_labels[1] THEN 0 ELSE 1]] ]

RECURSIVE SelectRows(_, _)
\* the rows of a sequence at the positions kept, in order
SelectRows(rows, keep) ==
    IF rows = <<>> THEN <<>>
    ELSE (IF Len(rows) \in keep THEN SelectRows(SubSeq(rows, 1, Len(rows) - 1), keep)
                                      \o <<rows[Len(rows)]>>
          ELSE SelectRows(SubSeq(rows, 1, Len(rows) - 1), keep))

\* lines 54-59: a text column named 'age' or 'income' is converted with
\* to_numeric and the rows it cannot convert are dropped
CoerceAttr(fr, attr) ==
    IF attr \in {"age", "income"} /\ fr.dtype[attr] = "object"
    THEN LET converted == [i \in 1..Len(fr.rows) |->
                              [fr.rows[i] EXCEPT ![attr] = to_numeric(@)]]
             kept == {i \in 1..Len(converted) : converted[i][attr] # NaN}
         IN  [ fr EXCEPT !.dtype = [@ EXCEPT ![attr] = "float64"],
                         !.index = SelectRows(fr.index, kept),
                         !.rows  = SelectRows(converted, kept) ]
    ELSE fr

RECURSIVE SumOver(_, _, _)
\* Series.sum() over the rows at the given positions, NaN skipped
SumOver(fr, label, members) ==
    IF members = {} THEN 0
    ELSE LET i == CHOOSE m \in members : TRUE
             v == fr.rows[i][label]
         IN  (IF v = NaN THEN 0 ELSE v) + SumOver(fr, label, members \ {i})

\* round(4) of sum / count, in ten-thousandths: round half to even
Round4(sum, count) ==
    LET q == (10000 * sum) \div count
        r == (10000 * sum) % count
    IN  IF 2 * r < count THEN q
        ELSE IF 2 * r > count THEN q + 1
        ELSE IF q % 2 = 0 THEN q ELSE q + 1

\* (variant) a row with a missing label counts as a case without approval
TotalCasesFilled(fr, label, members) == Cardinality(members)

\* 'count': the rows of the group whose label is not missing
TotalCases(fr, label, members) ==
    Cardinality({i \in members : fr.rows[i][label] # NaN})

\* lines 65-69: groupby(attr)[label].agg(['count', 'sum', 'mean']).round(4);
\* members (not printed) are the index labels of the rows grouped under g
GroupStats(fr, label, attr) ==
    [ g \in {fr.rows[i][attr] : i \in 1..Len(fr.rows)} |->
        LET members == {i \in 1..Len(fr.rows) : fr.rows[i][attr] = g}
            count   == TotalCases(fr, label, members)
            sum     == SumOver(fr, label, members)
        IN  [ total_cases   |-> count,
              approvals     |-> sum,
              approval_rate |-> IF count = 0 THEN NaN ELSE Round4(sum, count),
              members       |-> {fr.index[i] : i \in members} ] ]

\* Series.max() and Series.min(), NaN skipped; NaN when nothing is left
MaxRate(stats) ==
    LET rates == {stats[g].approval_rate : g \in DOMAIN stats} \ {NaN}
    IN  IF rates = {} THEN NaN
        ELSE CHOOSE r \in rates : \A q \in rates : q <= r

MinRate(stats) ==
    LET rates == {stats[g].approval_rate : g \in DOMAIN stats} \ {NaN}
    IN  IF rates = {} THEN NaN
        ELSE CHOOSE r \in rates : \A q \in rates : r <= q

\* line 80: disparate_impact_ratio < 0.8 on doubles; the rounding of the
\* quotient decides only when the exact ratio is 4/5.  Among the rates of
\* groups of up to 8 rows, 0.6 / 0.75 is the one quotient of ratio 4/5 that
\* IEEE-754 division rounds below the double nearest to 0.8.
RatioBelowFourFifths(min_rate, max_rate) ==
    IF 5 * min_rate = 4 * max_rate
    THEN <<min_rate, max_rate>> = <<6000, 7500>>
    ELSE 5 * min_rate < 4 * max_rate

\* one pass of the loop body on the working copy temp: the section printed
\* for attr and the working copy as the pass leaves it
AnalyseAttribute(temp, label, attr) ==
    IF ~LabelResolvable(temp, label)
    THEN [ section |-> [ attr |-> attr, analysed |-> FALSE, group_stats |-> EmptyDict,
                         ratio |-> <<>>, warning |-> FALSE ],
           temp    |-> temp ]
    ELSE LET coerced  == CoerceAttr(MapLabel(temp, label), attr)
             stats    == GroupStats(coerced, label, attr)
             max_rate == MaxRate(stats)
             min_rate == MinRate(stats)
         IN  [ section |-> [ attr        |-> attr,
                             analysed    |-> TRUE,
                             group_stats |-> stats,
                             ratio       |-> IF max_rate # NaN /\ max_rate > 0
                                             THEN <<min_rate, max_rate>> ELSE <<>>,
                             warning     |-> /\ max_rate # NaN
                                             /\ max_rate > 0
                                             /\ RatioBelowFourFifths(min_rate, max_rate) ],
               temp    |-> coerced ]

\* (variant) the working copy is made once, before the loop
WorkingCopyLeftOver(self_dataset, left_over) == left_over

\* line 40: each pass starts from a new copy of self.dataset
WorkingCopy(self_dataset, left_over) == Copy(self_dataset)

RECURSIVE AnalyseFrom(_, _, _, _)
\* the for loop over the protected attributes
AnalyseFrom(self_dataset, left_over, label, protected_attributes) ==
    IF protected_attributes = <<>> THEN <<>>
    ELSE LET pass == AnalyseAttribute(WorkingCopy(self_dataset, left_over),
                                      label, Head(protected_attributes))
         IN  <<pass.section>>
             \o AnalyseFrom(self_dataset, pass.temp, label, Tail(protected_attributes))

\* what BiasDetector(dataset, label, attrs).basic_bias_analysis() prints:
\* one section per protected attribute
basic_bias_analysis_printed(d, label_column, protected_attributes) ==
    AnalyseFrom(Copy(d), Copy(d), label_column, protected_attributes)

\* a caller's frame after a direct BiasDetector call: the detector works
\* on copies
BasicBiasAnalysis ==
    /\ pc = "idle"
    /\ printed' = basic_bias_analysis_printed(frame, attrs.label_column,
                                              attrs.protected_attributes)
    /\ UNCHANGED <<FAIRLEARN_AVAILABLE, pc, dataset, X_processed, call, given,
                   audit_results, results, bias_detector, explainer, order,
                   exc, clock, score, previous, frame, attrs, privacy_out>>

InitBias ==
    /\ FAIRLEARN_AVAILABLE = FALSE
    /\ PipelineInit
    /\ dataset = EmptyDataset
    /\ X_processed = [rows |-> 0, columns |-> <<"income", "tenure">>]
    /\ call = NoCall
    /\ given = [dataset |-> dataset, X_processed |-> X_processed]
    /\ clock = 0
    /\ previous = <<>>
    /\ \/ frame \in GroupFrames
       \/ \E dtype \in {"float64", "object"} : frame \in RowFrames(dtype)
    /\ attrs \in BiasAttrs
    /\ printed = <<>>
    /\ privacy_out = <<>>

SpecBias == InitBias /\ [][BasicBiasAnalysis]_vars

----------------------------------------------------------------------------
(* Regular expressions, as re.findall applies the PII patterns.            *)
(*                                                                         *)
(* A pattern is a sequence of items, matched with backtracking in the      *)
(* order of Python's re: an item is a word boundary, a character class     *)
(* repeated between min and max times (most repetitions first), or an      *)
(* optional group of items (tried with the group first).                   *)

DIGIT_CHARS == {DIGITS[i] : i \in 1..Len(DIGITS)}

LETTER_CHARS == {LOWERCASE[i] : i \in 1..Len(LOWERCASE)}
                \cup {UPPERCASE[i] : i \in 1..Len(UPPERCASE)}

\* \w
WORD_CHARS == LETTER_CHARS \cup DIGIT_CHARS \cup {"_"}

\* \s
SPACE_CHARS == {" ", "\t", "\n", "\r", "\f"}

\* the value of max for a repetition without upper limit
UNLIMITED == 1000000

\* no match
FAIL == 0

Boundary == [kind |-> "boundary", chars |-> {}, min |-> 0, max |-> 0, items |-> <<>>]

Class(chars, min, max) ==
    [kind |-> "class", chars |-> chars, min |-> min, max |-> max, items |-> <<>>]

Optional(items) ==
    [kind |-> "optional", chars |-> {}, min |-> 0, max |-> 1, items |-> items]

\* \b before the character at pos
AtBoundary(text, pos) ==
    LET IsWordAt(i) == i >= 1 /\ i <= Len(text) /\ text[i] \in WORD_CHARS
    IN  IsWordAt(pos - 1) # IsWordAt(pos)

RECURSIVE RunLength(_, _, _)
\* how many characters of the class follow from pos on
RunLength(text, pos, chars) ==
    IF pos <= Len(text) /\ text[pos] \in chars
    THEN 1 + RunLength(text, pos + 1, chars)
    ELSE 0

RECURSIVE Match(_, _, _)
RECURSIVE MatchRepeated(_, _, _, _)

\* the position after the match of items that starts at pos, FAIL if none
Match(text, pos, items) ==
    IF items = <<>> THEN pos
    ELSE LET item == Head(items)
         IN  CASE item.kind = "boundary" ->
                    IF AtBoundary(text, pos) THEN Match(text, pos, Tail(items)) ELSE FAIL
               [] item.kind = "optional" ->
                    LET with == Match(text, pos, item.items \o Tail(items))
                    IN  IF with # FAIL THEN with ELSE Match(text, pos, Tail(items))
               [] item.kind = "class" ->
                    LET run == RunLength(text, pos, item.chars)
                    IN  MatchRepeated(text, pos, items,
                                      IF run < item.max THEN run ELSE item.max)

\* the first item repeated k times, then k - 1 times, ... down to its min
MatchRepeated(text, pos, items, k) ==
    IF k < Head(items).min THEN FAIL
    ELSE LET rest == Match(text, pos + k, Tail(items))
         IN  IF rest # FAIL THEN rest ELSE MatchRepeated(text, pos, items, k - 1)

RECURSIVE FindAllFrom(_, _, _)
\* len(re.findall(pattern, text)): the matches found from left to right,
\* each search resuming where the last match ended
FindAllFrom(text, pos, items) ==
    IF pos > Len(text) THEN 0
    ELSE LET end == Match(text, pos, items)
         IN  IF end # FAIL /\ end > pos THEN 1 + FindAllFrom(text, end, items)
             ELSE FindAllFrom(text, pos + 1, items)

\* self.pii_patterns, in the order of the dict
PII_PATTERNS ==
    <<
      \* r'\b[A-Za-z0-9._%+-]+@[A-Za-z0-9.-]+\.[A-Z|a-z]{2,}\b'
      [ pii_type |-> "email", pattern |->
          << Boundary,
             Class(LETTER_CHARS \cup DIGIT_CHARS \cup {".", "_", "%", "+", "-"}, 1, UNLIMITED),
             Class({"@"}, 1, 1),
             Class(LETTER_CHARS \cup DIGIT_CHARS \cup {".", "-"}, 1, UNLIMITED),
             Class({"."}, 1, 1),
             Class(LETTER_CHARS \cup {"|"}, 2, UNLIMITED),
             Boundary >> ],
      \* r'\b\d{3}[-.]?\d{3}[-.]?\d{4}\b'
      [ pii_type |-> "phone", pattern |->
          << Boundary, Class(DIGIT_CHARS, 3, 3), Class({"-", "."}, 0, 1),
             Class(DIGIT_CHARS, 3, 3), Class({"-", "."}, 0, 1),
             Class(DIGIT_CHARS, 4, 4), Boundary >> ],
      \* r'\b\d{3}-\d{2}-\d{4}\b'
      [ pii_type |-> "ssn", pattern |->
          << Boundary, Class(DIGIT_CHARS, 3, 3), Class({"-"}, 1, 1),
             Class(DIGIT_CHARS, 2, 2), Class({"-"}, 1, 1),
             Class(DIGIT_CHARS, 4, 4), Boundary >> ],
      \* r'\b\d{4}[-\s]?\d{4}[-\s]?\d{4}[-\s]?\d{4}\b'
      [ pii_type |-> "credit_card", pattern |->
          << Boundary, Class(DIGIT_CHARS, 4, 4), Class({"-"} \cup SPACE_CHARS, 0, 1),
             Class(DIGIT_CHARS, 4, 4), Class({"-"} \cup SPACE_CHARS, 0, 1),
             Class(DIGIT_CHARS, 4, 4), Class({"-"} \cup SPACE_CHARS, 0, 1),
             Class(DIGIT_CHARS, 4, 4), Boundary >> ],
      \* r'\b\d{5}(-\d{4})?\b'
      [ pii_type |-> "zipcode", pattern |->
          << Boundary, Class(DIGIT_CHARS, 5, 5),
             Optional(<<Class({"-"}, 1, 1), Class(DIGIT_CHARS, 4, 4)>>), Boundary >> ]
    >>

\* self.common_names
FIRST_NAMES ==
    {
      <<"j","o","h","n">>,
      <<"m","a","r","y">>,
      <<"j","a","m","e","s">>,
      <<"p","a","t","r","i","c","i","a">>,
      <<"r","o","b","e","r","t">>,
      <<"j","e","n","n","i","f","e","r">>,
      <<"m","i","c","h","a","e","l">>,
      <<"l","i","n","d","a">>,
      <<"w","i","l","l","i","a","m">>,
      <<"e","l","i","z","a","b","e","t","h">>,
      <<"d","a","v","i","d">>,
      <<"b","a","r","b","a","r","a">> }

LAST_NAMES ==
    {
      <<"s","m","i","t","h">>,
      <<"j","o","h","n","s","o","n">>,
      <<"w","i","l","l","i","a","m","s">>,
      <<"b","r","o","w","n">>,
      <<"j","o","n","e","s">>,
      <<"g","a","r","c","i","a">>,
      <<"m","i","l","l","e","r">>,
      <<"d","a","v","i","s">>,
      <<"r","o","d","r","i","g","u","e","z">>,
      <<"m","a","r","t","i","n","e","z">>,
      <<"h","e","r","n","a","n","d","e","z">> }

----------------------------------------------------------------------------
(* PrivacyAnalyzer on the cells of a frame.                                *)
(*                                                                         *)
(* The frames of a direct PrivacyAnalyzer call have the text column note,  *)
(* the int64 column zipcode and the bool column flag, or the column flag   *)
(* alone, or the columns of a customer profile.  A ratio is the pair       *)
(* <<numerator, denominator>>.                                             *)

\* Most rows of a frame handed to the privacy analyzer.
MaxPrivacyRows == 3

\* '1234 5678' and '9012 3456': the two halves of a card number
CELL_CARD_HEAD == <<"1","2","3","4"," ","5","6","7","8">>

CELL_CARD_TAIL == <<"9","0","1","2"," ","3","4","5","6">>

\* 'John@x.io'
CELL_EMAIL == <<"J","o","h","n","@","x",".","i","o">>

\* 'n/a'
CELL_NONE == <<"n","/","a">>

NoteCells == {CELL_CARD_HEAD, CELL_CARD_TAIL, CELL_EMAIL, CELL_NONE}

PrivacyFrameOf(columns, dtype, rows) ==
    [ columns |-> columns, dtype |-> dtype,
      index |-> [i \in 1..Len(rows) |-> i], rows |-> rows ]

\* the frames with the columns note, zipcode and flag
NoteFrames ==
    { PrivacyFrameOf(<<"note", "zipcode", "flag">>,
                     [note |-> "object", zipcode |-> "int64", flag |-> "bool"],
                     rows) :
        rows \in UNION { [1..n -> [ note : NoteCells, zipcode : {10001},
                                    flag : {TRUE} ]] : n \in 0..MaxPrivacyRows } }

\* the frames without a textual or numeric column
FlagFrames ==
    { PrivacyFrameOf(<<"flag">>, [flag |-> "bool"], rows) :
        rows \in UNION { [1..n -> [flag : BOOLEAN]] : n \in 0..MaxPrivacyRows } }

\* the frames of a customer profile: the bool column flag, the float64
\* column State_Income with missing cells, the int64 column zipcode, the
\* text column city and the int64 column rating
ProfileFrames ==
    { PrivacyFrameOf(<<"flag", "State_Income", "zipcode", "city", "rating">>,
                     [flag |-> "bool", State_Income |-> "float64",
                      zipcode |-> "int64", city |-> "object", rating |-> "int64"],
                     rows) :
        rows \in UNION { [1..n -> [ flag : {TRUE}, State_Income : {50, NaN},
                                    zipcode : {10001}, city : {<<"x">>},
                                    rating : {1, 2} ]] : n \in 0..MaxPrivacyRows } }

\* the characters of a column name
NameChars(col) ==
    CASE col = "note"         -> <<"n","o","t","e">>
      [] col = "zipcode"      -> <<"z","i","p","c","o","d","e">>
      [] col = "flag"         -> <<"f","l","a","g">>
      [] col = "State_Income" -> <<"S","t","a","t","e","_","I","n","c","o","m","e">>
      [] col = "city"         -> <<"c","i","t","y">>
      [] col = "rating"       -> <<"r","a","t","i","n","g">>

RECURSIVE Flatten(_)
\* the concatenation of a list of lists
Flatten(lists) ==
    IF lists = <<>> THEN <<>> ELSE Head(lists) \o Flatten(Tail(lists))

RECURSIVE Join(_, _)
\* sep.join(texts)
Join(sep, texts) ==
    IF texts = <<>> THEN <<>>
    ELSE IF Len(texts) = 1 THEN texts[1]
    ELSE texts[1] \o sep \o Join(sep, Tail(texts))

\* _detect_names: how many names of each lexicon occur in the lower-cased
\* text, reported when there is one at least
detect_names(text) ==
    LET text_lower == Lower(text)
        first_name_count == Cardinality({n \in FIRST_NAMES : Contains(text_lower, n)})
        last_name_count  == Cardinality({n \in LAST_NAMES : Contains(text_lower, n)})
    IN  (IF first_name_count > 0
         THEN <<[kind |-> "potential_first_names", instances |-> first_name_count]>>
         ELSE <<>>)
        \o (IF last_name_count > 0
            THEN <<[kind |-> "potential_last_names", instances |-> last_name_count]>>
            ELSE <<>>)

RECURSIVE PatternFindings(_, _)
\* the loop over self.pii_patterns on one text: a finding per pattern that
\* matches somewhere
PatternFindings(text, patterns) ==
    IF patterns = <<>> THEN <<>>
    ELSE LET matches == FindAllFrom(text, 1, Head(patterns).pattern)
         IN  (IF matches > 0
              THEN <<[kind |-> Head(patterns).pii_type, instances |-> matches]>>
              ELSE <<>>)
             \o PatternFindings(text, Tail(patterns))

\* the findings of one column: for a text column, those of its cells joined
\* by single spaces
ColumnPii(fr, column) ==
    IF fr.dtype[column] = "object"
    THEN LET text_data == Join(<<" ">>, Column(fr, column))
         IN  PatternFindings(text_data, PII_PATTERNS) \o detect_names(text_data)
    ELSE <<>>

ColumnSet(fr) == {fr.columns[i] : i \in 1..Len(fr.columns)}

\* _detect_pii: column -> findings, for the columns with findings
detect_pii_cells(fr) ==
    [ column \in {c \in ColumnSet(fr) : ColumnPii(fr, c) # <<>>} |->
        ColumnPii(fr, column) ]

\* potential_qi
POTENTIAL_QI ==
    <<
       [qi_type |-> "age", keywords |-> {<<"a","g","e">>, <<"b","i","r","t","h","_","y","e","a","r">>, <<"d","o","b">>}],
       [qi_type |-> "location", keywords |-> {<<"z","i","p">>, <<"z","i","p","c","o","d","e">>, <<"c","i","t","y">>, <<"s","t","a","t","e">>, <<"a","d","d","r","e","s","s">>, <<"l","o","c","a","t","i","o","n">>}],
       [qi_type |-> "demographic", keywords |-> {<<"g","e","n","d","e","r">>, <<"r","a","c","e">>, <<"e","t","h","n","i","c","i","t","y">>, <<"m","a","r","i","t","a","l","_","s","t","a","t","u","s">>}],
       [qi_type |-> "professional", keywords |-> {<<"j","o","b","_","t","i","t","l","e">>, <<"e","m","p","l","o","y","e","r">>, <<"s","a","l","a","r","y">>, <<"i","n","c","o","m","e">>}],
       [qi_type |-> "temporal", keywords |-> {<<"d","a","t","e">>, <<"t","i","m","e","s","t","a","m","p">>, <<"t","i","m","e">>}] >>

\* (variant) keyword in col: the name is matched as it is written
NameHoldsCaseSensitive(col, keyword) == Contains(NameChars(col), keyword)

\* keyword in col.lower()
NameHolds(col, keyword) == Contains(Lower(NameChars(col)), keyword)

RECURSIVE FoundColumns(_, _)
\* found_columns of one category: the columns, in column order, whose name
\* holds one of its keywords
FoundColumns(columns, keywords) ==
    IF columns = <<>> THEN <<>>
    ELSE (IF \E keyword \in keywords : NameHolds(Head(columns), keyword)
          THEN <<Head(columns)>> ELSE <<>>)
         \o FoundColumns(Tail(columns), keywords)

\* the list quasi_identifiers after the loop over the categories, a column
\* being appended once for every category it is found in
QuasiIdentifierHits(fr) ==
    Flatten([i \in 1..Len(POTENTIAL_QI) |->
                FoundColumns(fr.columns, POTENTIAL_QI[i].keywords)])

\* _detect_quasi_identifiers: list(set(quasi_identifiers)), the columns of
\* the list without duplicates (in no particular order)
detect_quasi_identifiers(fr) ==
    LET quasi_identifiers == QuasiIdentifierHits(fr)
    IN  {quasi_identifiers[i] : i \in 1..Len(quasi_identifiers)}

\* df[col].dtype in ['object', 'int64', 'float64']
UNIQUENESS_DTYPES == {"object", "int64", "float64"}

RECURSIVE EligibleColumns(_, _)
EligibleColumns(fr, columns) ==
    IF columns = <<>> THEN <<>>
    ELSE (IF fr.dtype[Head(columns)] \in UNIQUENESS_DTYPES THEN <<Head(columns)>> ELSE <<>>)
         \o EligibleColumns(fr, Tail(columns))

\* Series.nunique(): the number of distinct values, missing cells left out
NUnique(fr, col) ==
    Cardinality({ fr.rows[i][col] : i \in 1..Len(fr.rows) }
                \ (IF fr.dtype[col] = "float64" THEN {NaN} ELSE {}))

\* the first two or three eligible columns
ImportantColumns(fr) ==
    LET eligible == EligibleColumns(fr, fr.columns)
    IN  SubSeq(eligible, 1, IF Len(eligible) < 3 THEN Len(eligible) ELSE 3)

\* len(df[important_cols].drop_duplicates())
DistinctCombinations(fr) ==
    Cardinality({ [k \in 1..Len(ImportantColumns(fr)) |->
                      fr.rows[i][ImportantColumns(fr)[k]]] : i \in 1..Len(fr.rows) })

\* _analyze_uniqueness: nunique / len(df) for every eligible column, which
\* is a division by zero for a frame without rows; then the combined ratio
analyze_uniqueness(fr) ==
    LET eligible == EligibleColumns(fr, fr.columns)
    IN  IF eligible # <<>> /\ Len(fr.rows) = 0
        THEN Raise("division by zero")
        ELSE Return(
               [ col \in {eligible[k] : k \in 1..Len(eligible)}
                          \cup (IF Len(fr.rows) > 0 /\ Len(ImportantColumns(fr)) >= 2
                                THEN {"combination_2-3_cols"} ELSE {}) |->
                   IF col = "combination_2-3_cols"
                   THEN <<DistinctCombinations(fr), Len(fr.rows)>>
                   ELSE <<NUnique(fr, col), Len(fr.rows)>> ])

\* _generate_recommendations
generate_recommendations(analysis_results) ==
    (IF DOMAIN analysis_results.pii_detected # {}
     THEN <<"Remove or encrypt detected PII before model training",
            "Consider data anonymization techniques">>
     ELSE <<>>)
    \o (IF analysis_results.quasi_identifiers # {}
        THEN <<"Apply k-anonymity or l-diversity to quasi-identifiers",
               "Consider generalization/suppression of sensitive attributes">>
        ELSE <<>>)
    \o (IF \E col \in DOMAIN analysis_results.uniqueness_risk :
              LET ratio == analysis_results.uniqueness_risk[col]
              IN  10 * ratio[1] > 9 * ratio[2]
        THEN <<"Reduce granularity of highly unique columns",
               "Consider data aggregation or binning">>
        ELSE <<>>)
    \o <<"Implement differential privacy for model training",
         "Use secure multi-party computation for sensitive data",
         "Regular privacy audits and monitoring">>

\* analyze_dataset on the cells of df
analyze_dataset_cells(df) ==
    LET uniqueness == analyze_uniqueness(df)
    IN
    IF uniqueness.raised THEN uniqueness
    ELSE LET found == [ pii_detected      |-> detect_pii_cells(df),
                        quasi_identifiers |-> detect_quasi_identifiers(df),
                        uniqueness_risk   |-> uniqueness.value ]
         IN  Return([ pii_detected      |-> found.pii_detected,
                      quasi_identifiers |-> found.quasi_identifiers,
                      uniqueness_risk   |-> found.uniqueness_risk,
                      recommendations   |-> generate_recommendations(found) ])

RECURSIVE Split(_, _)
\* str.split(): the runs of characters between whitespace; word is the run
\* being read
Split(text, word) ==
    IF text = <<>> THEN (IF word = <<>> THEN <<>> ELSE <<word>>)
    ELSE IF Head(text) \in SPACE_CHARS
         THEN (IF word = <<>> THEN <<>> ELSE <<word>>) \o Split(Tail(text), <<>>)
         ELSE Split(Tail(text), Append(word, Head(text)))

\* _check_data_leakage: the share of the outputs' tokens that are the whole
\* text of a cell of a text column of the training data; 0 without tokens
check_data_leakage(outputs, training_data) ==
    LET training_text_set ==
            UNION { {training_data.rows[i][col] : i \in 1..Len(training_data.rows)} :
                    col \in {c \in ColumnSet(training_data) :
                                training_data.dtype[c] = "object"} }
        tokens == Flatten([i \in 1..Len(outputs) |-> Split(outputs[i], <<>>)])
        matches == Cardinality({i \in 1..Len(tokens) : tokens[i] \in training_text_set})
    IN  IF Len(tokens) > 0 THEN <<matches, Len(tokens)>> ELSE <<0, 1>>

\* analyze_model_outputs; training is <<>> for None, else <<the frame>>
analyze_model_outputs(outputs, training) ==
    LET combined_output == Join(<<" ">>, outputs)
        found == PatternFindings(combined_output, PII_PATTERNS)
    IN  Return([ pii_in_outputs    |-> [ pii_type \in {found[i].kind : i \in 1..Len(found)} |->
                                           (CHOOSE f \in {found[i] : i \in 1..Len(found)} :
                                               f.kind = pii_type).instances ],
                 data_leakage_risk |-> IF training # <<>>
                                       THEN check_data_leakage(outputs, training[1])
                                       ELSE <<0, 1>>,
                 recommendations   |-> <<>> ])

\* the output lists of a direct analyze_model_outputs call
OutputLists == { <<>>, <<CELL_EMAIL>>, <<CELL_CARD_HEAD, CELL_CARD_TAIL>> }

\* the caller invokes PrivacyAnalyzer().analyze_dataset(frame); a caller
\* makes one call, the analyzer keeping nothing from call to call
AnalyzeDataset ==
    /\ pc = "idle"
    /\ privacy_out = <<>>
    /\ privacy_out' = << [ op      |-> "analyze_dataset",
                           outputs |-> <<>>, training |-> <<>>,
                           out     |-> analyze_dataset_cells(frame) ] >>
    /\ frame' = Copy(frame)
    /\ UNCHANGED <<FAIRLEARN_AVAILABLE, pc, dataset, X_processed, call, given,
                   audit_results, results, bias_detector, explainer, order,
                   exc, clock, score, previous, attrs, printed>>

\* the caller invokes PrivacyAnalyzer().analyze_model_outputs(outputs) or
\* analyze_model_outputs(outputs, frame)
AnalyzeModelOutputs ==
    /\ pc = "idle"
    /\ privacy_out = <<>>
    /\ \E outputs \in OutputLists, training \in {<<>>, <<frame>>} :
          privacy_out' = << [ op      |-> "analyze_model_outputs",
                              outputs |-> outputs, training |-> training,
                              out     |-> analyze_model_outputs(outputs, training) ] >>
    /\ UNCHANGED <<FAIRLEARN_AVAILABLE, pc, dataset, X_processed, call, given,
                   audit_results, results, bias_detector, explainer, order,
                   exc, clock, score, previous, frame, attrs, printed>>

InitPrivacy ==
    /\ FAIRLEARN_AVAILABLE = FALSE
    /\ PipelineInit
    /\ dataset = EmptyDataset
    /\ X_processed = [rows |-> 0, columns |-> <<"income", "tenure">>]
    /\ call = NoCall
    /\ given = [dataset |-> dataset, X_processed |-> X_processed]
    /\ clock = 0
    /\ previous = <<>>
    /\ \/ frame \in NoteFrames
       \/ frame \in FlagFrames
       \/ frame \in ProfileFrames
    /\ attrs = [label_column |-> "approved", protected_attributes |-> <<>>]
    /\ printed = <<>>
    /\ privacy_out = <<>>

NextPrivacy ==
    \/ AnalyzeDataset
    \/ AnalyzeModelOutputs

SpecPrivacy == InitPrivacy /\ [][NextPrivacy]_vars

----------------------------------------------------------------------------
(* Properties of repeated audits on one pipeline *)

\* the last call and the one before it have returned
TwoCallsReturned == pc = "idle" /\ order = STAGES /\ previous # <<>>

\* the last two calls were given identical inputs
SameInputsTwice ==
    /\ TwoCallsReturned
    /\ previous[1].given = given
    /\ previous[1].call = call

\* the fields of a summary other than its timestamp
SummaryVerdict(s) ==
    [ overall_status  |-> s["overall_status"],
      issues_found    |-> s["issues_found"],
      recommendations |-> s["recommendations"],
      risk_level      |-> s["risk_level"] ]

\* C11 (as claimed): two calls on identical inputs return identical
\* summaries, and their compliance scores are identical.
C11_RerunIdenticalSummary ==
    SameInputsTwice =>
       /\ previous[1].returned["summary"] = results["summary"]
       /\ (previous[1].score # <<>> /\ score # <<>>) => previous[1].score = score

\* C11 (amended): two calls on identical inputs return summaries with the
\* same status, issue list, risk tier and recommendations, and the same
\* compliance score; the timestamp of each summary is the clock reading of
\* its own call.
C11_RerunSameVerdictAndScore ==
    SameInputsTwice =>
       /\ SummaryVerdict(previous[1].returned["summary"]) = SummaryVerdict(results["summary"])
       /\ results["summary"]["timestamp"] = clock
       /\ previous[1].returned["summary"]["timestamp"] <= clock
       /\ (previous[1].score # <<>> /\ score # <<>>) => previous[1].score = score

\* C11 witness: two calls on identical inputs that found PII have returned
\* at different clock readings and both have been scored
C11_Witness_RerunLater ==
    /\ SameInputsTwice
    /\ previous[1].returned["summary"]["timestamp"] < results["summary"]["timestamp"]
    /\ results["summary"]["issues_found"] # <<>>
    /\ previous[1].score # <<>>
    /\ score = previous[1].score

\* C12: the dict a call returned is the same after a later run_full_audit
\* and after generate_compliance_score as it was at its return, and the
\* dict a call returns is built from that call's inputs alone, with nothing
\* of an earlier result in it.
C12_ReturnedResultNeverChanges ==
    /\ previous # <<>> => previous[1].object = previous[1].returned
    /\ (pc = "idle" /\ order = STAGES) =>
          results = run_full_audit(given.dataset, given.X_processed, call,
                                   FAIRLEARN_AVAILABLE, clock)

\* C12 witness: after a call returned, a call on other inputs returned a
\* different result and the score was computed
C12_Witness_LaterCallAndScore ==
    /\ TwoCallsReturned
    /\ previous[1].given # given
    /\ SummaryVerdict(previous[1].returned["summary"]) # SummaryVerdict(results["summary"])
    /\ score # <<>>

\* C13: two scored results whose summaries have the same issue list have
\* the same score, whatever their other entries are, and a step that
\* computes the score leaves the pipeline, the results and the caller's
\* inputs as they were.
C13_ScoreDependsOnIssuesOnly ==
    /\ [](( /\ TwoCallsReturned
            /\ previous[1].score # <<>>
            /\ score # <<>>
            /\ previous[1].returned["summary"]["issues_found"]
                  = results["summary"]["issues_found"] )
          => previous[1].score = score)
    /\ [][score' # <<>> =>
            UNCHANGED <<results, audit_results, dataset, X_processed, call,
                        given, bias_detector, explainer, previous, clock>>]_vars

\* C13 witness: two scored results with the same issue list, one with an
\* error marker as explainability entry and one with a payload
C13_Witness_SameIssuesOtherEntries ==
    /\ TwoCallsReturned
    /\ previous[1].score # <<>>
    /\ score = previous[1].score
    /\ previous[1].returned["summary"]["issues_found"] = results["summary"]["issues_found"]
    /\ "error" \in DOMAIN previous[1].returned["explainability_analysis"]
    /\ "error" \notin DOMAIN results["explainability_analysis"]

----------------------------------------------------------------------------
(* Properties of the bias report stored by the pipeline *)

\* the keys fairlearn_analysis stores for the protected attribute segment
FAIRLEARN_KEYS == {"segment_fairlearn_metrics", "segment_demographic_parity_diff"}

\* C14 (as claimed): the payload generate_report returns, stored as
\* bias_analysis, holds for each protected attribute a group statistics
\* table and a disparate impact ratio with its flag: entries besides the
\* selection rates and parity difference of the fairlearn analysis.
C14_ReportHoldsGroupStatistics ==
    (Returned /\ exc["bias"] = <<>>) =>
       DOMAIN results["bias_analysis"] \ FAIRLEARN_KEYS # {}

----------------------------------------------------------------------------
(* Properties of basic_bias_analysis *)

\* basic_bias_analysis has been called on the frame
BiasAnalysed == printed # <<>>

\* C15 (as claimed): in every analysed section, when the largest group rate
\* is above 0 the ratio min rate / max rate is defined and lies in [0,1] and
\* the warning is given exactly when the ratio is below 0.8, a ratio of
\* exactly 0.8 giving none; when the largest rate is 0 (or there is no
\* rate) the ratio is undefined and no warning is given.
C15_WarningIffRatioBelowFourFifths ==
    \A i \in 1..Len(printed) :
       printed[i].analysed =>
          LET max_rate == MaxRate(printed[i].group_stats)
              min_rate == MinRate(printed[i].group_stats)
          IN  IF max_rate # NaN /\ max_rate > 0
              THEN /\ printed[i].ratio = <<min_rate, max_rate>>
                   /\ 0 <= min_rate /\ min_rate <= max_rate
                   /\ printed[i].warning <=> (5 * min_rate < 4 * max_rate)
              ELSE /\ printed[i].ratio = <<>>
                   /\ ~printed[i].warning

\* the section printed for one attribute when it is the only one analysed
SectionAlone(attr) ==
    basic_bias_analysis_printed(frame, attrs.label_column, <<attr>>)[1]

RECURSIVE SumTotals(_, _)
SumTotals(stats, groups) ==
    IF groups = {} THEN 0
    ELSE LET g == CHOOSE x \in groups : TRUE
         IN  stats[g].total_cases + SumTotals(stats, groups \ {g})

\* the cases counted in a section, over all its groups
CasesCounted(section) == SumTotals(section.group_stats, DOMAIN section.group_stats)

\* C16: a skipped attribute and an attribute whose unconvertible rows are
\* dropped do not end the analysis: every protected attribute of the list
\* gets its section, and each section is the one computed for that
\* attribute alone on the full frame, whatever was skipped or dropped for
\* the attributes before it.
C16_AttributesAnalysedIndependently ==
    BiasAnalysed =>
       /\ Len(printed) = Len(attrs.protected_attributes)
       /\ \A i \in 1..Len(printed) :
             /\ printed[i].attr = attrs.protected_attributes[i]
             /\ printed[i] = SectionAlone(attrs.protected_attributes[i])

\* C16 witness: age was analysed first and lost a row to the numeric
\* coercion, and segment was then analysed over every row
C16_Witness_RowsDroppedForAgeOnly ==
    /\ BiasAnalysed
    /\ attrs.protected_attributes = <<"age", "segment">>
    /\ printed[1].analysed
    /\ CasesCounted(printed[1]) < Len(frame.rows)
    /\ printed[2].analysed
    /\ CasesCounted(printed[2]) = Len(frame.rows)

\* the rows of the frame whose label resolves to 0 or 1
ResolvableRows ==
    IF frame.dtype["approved"] = "object" THEN 1..Len(frame.rows)
    ELSE {i \in 1..Len(frame.rows) : frame.rows[i]["approved"] # NaN}

----------------------------------------------------------------------------
(* Properties of the caller's dataset *)

\* C18: at every point of a run_full_audit call and after it, the frame the
\* caller passed has the rows, columns and values it had when it was
\* passed: the bias detector and the privacy analyzer, the two stages that
\* are given the frame, leave it as it was.
C18_CallerDatasetReadOnly ==
    /\ dataset = given.dataset
    /\ Returned => results["dataset_info"]["shape"] = <<dataset.rows, Len(COLUMNS)>>

\* C18 witness: a call has returned whose bias stage and privacy stage both
\* ran to their end on a frame with rows, and PII was found in it
C18_Witness_BothEnginesRan ==
    /\ Returned
    /\ exc["bias"] = <<>>
    /\ exc["privacy"] = <<>>
    /\ dataset.rows > 0
    /\ PiiPresent(results)

----------------------------------------------------------------------------
(* Properties of the privacy analyzer *)

\* a direct call of the named sub-analysis has ended
PrivacyCalled(op) == privacy_out # <<>> /\ privacy_out[1].op = op

\* the frame has no column of a textual or numeric dtype
NoTextualOrNumericColumn ==
    \A c \in ColumnSet(frame) : frame.dtype[c] \notin UNIQUENESS_DTYPES

\* C19 (as claimed): analyze_dataset and analyze_model_outputs raise on no
\* input, a frame without rows and an empty output list included, and a
\* frame without textual or numeric column gives empty PII findings and an
\* empty uniqueness record.
C19_PrivacyNeverRaises ==
    privacy_out # <<>> =>
       /\ ~privacy_out[1].out.raised
       /\ (PrivacyCalled("analyze_dataset") /\ NoTextualOrNumericColumn) =>
             /\ DOMAIN privacy_out[1].out.value.pii_detected = {}
             /\ DOMAIN privacy_out[1].out.value.uniqueness_risk = {}

\* the orders the rows of the frame can be put in
RowOrders ==
    { f \in [1..Len(frame.rows) -> 1..Len(frame.rows)] :
        \A i, j \in 1..Len(frame.rows) : f[i] = f[j] => i = j }

PermuteRows(fr, f) ==
    [ fr EXCEPT !.index = [i \in 1..Len(fr.rows) |-> fr.index[f[i]]],
                !.rows  = [i \in 1..Len(fr.rows) |-> fr.rows[f[i]]] ]

\* C20 (as claimed): the PII findings analyze_dataset returned are those of
\* a second detection on the same frame, and those of the frame with its
\* rows in any other order: every pattern's match count and the name hit
\* counts of every column are the same.
C20_PiiOrderIndependent ==
    (PrivacyCalled("analyze_dataset") /\ ~privacy_out[1].out.raised) =>
       /\ detect_pii_cells(frame) = privacy_out[1].out.value.pii_detected
       /\ \A f \in RowOrders :
             detect_pii_cells(PermuteRows(frame, f))
                = privacy_out[1].out.value.pii_detected

----------------------------------------------------------------------------
(* Properties of the uniqueness analysis and the quasi-identifier set *)

\* analyze_dataset has returned a result for the non-empty frame
UniquenessRecorded ==
    /\ PrivacyCalled("analyze_dataset")
    /\ ~privacy_out[1].out.raised
    /\ Len(frame.rows) > 0

\* the values a column holds, a missing cell holding none
ValuesOf(col) ==
    { frame.rows[i][col] : i \in 1..Len(frame.rows) }
    \ (IF frame.dtype[col] = "float64" THEN {NaN} ELSE {})

\* C21 (as claimed): for every numeric or textual column of a non-empty
\* frame the recorded ratio is the number of distinct values over the number
\* of rows; a column whose values are all distinct has the ratio 1.0 and a
\* column holding one value in all rows has the ratio 1 / row count.
C21_UniquenessRatioOfValues ==
    UniquenessRecorded =>
       \A col \in {c \in ColumnSet(frame) : frame.dtype[c] \in UNIQUENESS_DTYPES} :
          LET ratio == privacy_out[1].out.value.uniqueness_risk[col]
              rows  == 1..Len(frame.rows)
          IN  /\ ratio = <<Cardinality(ValuesOf(col)), Len(frame.rows)>>
              /\ (\A i, j \in rows : i # j => frame.rows[i][col] # frame.rows[j][col])
                    => ratio[1] = ratio[2]
              /\ (\A i, j \in rows : frame.rows[i][col] = frame.rows[j][col]
                                     /\ frame.rows[i][col] \in ValuesOf(col))
                    => (ratio[1] = 1 /\ ratio[2] = Len(frame.rows))

\* the values of row i in the first three numeric or textual columns
CombinationOf(i) ==
    [k \in 1..Len(ImportantColumns(frame)) |-> frame.rows[i][ImportantColumns(frame)[k]]]

\* C22 (as claimed): the combined ratio recorded for a non-empty frame is
\* taken over the first three numeric or textual columns in column order
\* and is the share of the rows whose combination of values in these
\* columns occurs in that row only.
C22_CombinedRatioIsShareOfUniqueRows ==
    (UniquenessRecorded /\ Len(ImportantColumns(frame)) >= 2) =>
       LET rows   == 1..Len(frame.rows)
           unique == {i \in rows : \A j \in rows : CombinationOf(j) = CombinationOf(i) => j = i}
       IN  /\ "combination_2-3_cols" \in DOMAIN privacy_out[1].out.value.uniqueness_risk
           /\ privacy_out[1].out.value.uniqueness_risk["combination_2-3_cols"]
                 = <<Cardinality(unique), Len(frame.rows)>>

\* the keywords of the five categories
QiKeywords == UNION {POTENTIAL_QI[i].keywords : i \in 1..Len(POTENTIAL_QI)}

\* C23: the quasi-identifiers analyze_dataset returns are exactly the columns
\* whose lower-cased name holds a keyword of one of the five categories,
\* whatever the cells hold; a column named zipcode is among them, and a
\* column found in several categories is among them once.
C23_QuasiIdentifiersByNameOnly ==
    (PrivacyCalled("analyze_dataset") /\ ~privacy_out[1].out.raised) =>
       LET quasi_identifiers == privacy_out[1].out.value.quasi_identifiers
       IN  /\ Len(POTENTIAL_QI) = 5
           /\ quasi_identifiers =
                 { c \in ColumnSet(frame) :
                     \E keyword \in QiKeywords : Contains(Lower(NameChars(c)), keyword) }
           /\ "zipcode" \in ColumnSet(frame) => "zipcode" \in quasi_identifiers
           /\ Cardinality(quasi_identifiers) <= Len(QuasiIdentifierHits(frame))
           /\ \A c \in quasi_identifiers :
                 \E i \in 1..Len(QuasiIdentifierHits(frame)) : QuasiIdentifierHits(frame)[i] = c

\* a frame whose column State_Income is found in two categories, with rows
\* of different content, has been analysed
C23_Witness_ColumnOfTwoCategories ==
    /\ PrivacyCalled("analyze_dataset") /\ ~privacy_out[1].out.raised
    /\ Len(frame.rows) >= 2 /\ frame.rows[1] # frame.rows[2]
    /\ privacy_out[1].out.value.quasi_identifiers = {"State_Income", "zipcode", "city"}
    /\ Len(QuasiIdentifierHits(frame)) = 4

----------------------------------------------------------------------------
(* Properties of the training-data leakage ratio *)

\* the whitespace-separated tokens of the cells of the text columns of fr
TrainingTokens(fr) ==
    UNION { {Split(fr.rows[i][c], <<>>)[k] : k \in 1..Len(Split(fr.rows[i][c], <<>>))} :
            i \in 1..Len(fr.rows),
            c \in {col \in ColumnSet(fr) : fr.dtype[col] = "object"} }

\* C24 (as claimed): with the training data given, the leakage ratio is the
\* number of the outputs' whitespace-separated tokens that equal a token of
\* a text column of the training data over the number of the outputs'
\* tokens, 0 without tokens, and lies in [0,1].
C24_LeakageRatioOfTrainingTokens ==
    (PrivacyCalled("analyze_model_outputs") /\ privacy_out[1].training # <<>>) =>
       LET ratio  == privacy_out[1].out.value.data_leakage_risk
           tokens == Flatten([i \in 1..Len(privacy_out[1].outputs) |->
                                 Split(privacy_out[1].outputs[i], <<>>)])
           seen   == {i \in 1..Len(tokens) :
                         tokens[i] \in TrainingTokens(privacy_out[1].training[1])}
       IN  /\ 0 <= ratio[1] /\ ratio[1] <= ratio[2]
           /\ IF tokens = <<>> THEN ratio[1] = 0
              ELSE ratio = <<Cardinality(seen), Len(tokens)>>

----------------------------------------------------------------------------
(* Properties of the audit from the engines' findings to the score *)

\* lines 73-81 on the approval rates of a dataset's groups: the basic
\* analysis prints its warning
DisparateImpactWarning(d) ==
    LET rates    == {d.approval_rates[i] : i \in 1..Len(d.approval_rates)}
        max_rate == IF rates = {} THEN NaN ELSE CHOOSE r \in rates : \A q \in rates : q <= r
        min_rate == IF rates = {} THEN NaN ELSE CHOOSE r \in rates : \A q \in rates : r <= q
    IN  max_rate > 0 /\ RatioBelowFourFifths(min_rate, max_rate)

\* C25 (as claimed): when the bias stage of an audit ends without error and
\* its basic analysis finds a disparate impact ratio below 0.8 for the
\* protected attribute, the returned summary holds the bias issue, the
\* status FAILED and the risk tier HIGH, and the score is at most 60.
C25_BasicWarningReachesSummary ==
    (Returned /\ exc["bias"] = <<>> /\ DisparateImpactWarning(given.dataset)) =>
       /\ HasIssue(ISSUE_BIAS)
       /\ results["summary"]["overall_status"] = "FAILED"
       /\ results["summary"]["risk_level"] = "HIGH"
       /\ score # <<>> => score[1] <= 60

\* the entry of a stage in the returned results is an error marker
Failed(stage) == "error" \in DOMAIN results[KeyOf(stage)]

\* C26: in a returned audit whose bias and privacy entries are error markers
\* and whose hallucination entry is an error marker or the skip marker, the
\* summary has no issue, the status PASSED and the risk tier LOW, and the
\* score is 100.
C26_FailedStagesRaiseNoIssue ==
    (/\ Returned
     /\ Failed("bias") /\ Failed("privacy")
     /\ Failed("hallucination") \/ "skipped" \in DOMAIN results["hallucination_analysis"]) =>
       /\ results["summary"]["issues_found"] = <<>>
       /\ results["summary"]["overall_status"] = "PASSED"
       /\ results["summary"]["risk_level"] = "LOW"
       /\ score # <<>> => score = <<100>>

\* an audit whose bias, privacy and hallucination stages raised has been
\* scored
C26_Witness_ThreeFailedAndScored ==
    /\ Returned
    /\ exc["bias"] # <<>> /\ exc["privacy"] # <<>> /\ exc["hallucination"] # <<>>
    /\ Failed("bias") /\ Failed("privacy") /\ Failed("hallucination")
    /\ score = <<100>>

\* the last call of run_full_audit raised, after a call that returned
RaisedAfterReturn == pc = "idle" /\ order = <<>> /\ previous # <<>>

\* C27: the score is computed from the summary of the audit returned last
\* and from nothing else, that audit's result holding only what its own
\* call found; after a call that raised before returning, the stored result
\* is the one the audit before returned and the score is that audit's.
C27_ScoreOfLastReturnedAudit ==
    /\ (Returned /\ score # <<>>) =>
          /\ results = run_full_audit(given.dataset, given.X_processed, call,
                                      FAIRLEARN_AVAILABLE, clock)
          /\ score[1] = generate_compliance_score(
                           [summary |-> [issues_found |-> results["summary"]["issues_found"]]])
    /\ RaisedAfterReturn =>
          /\ results = previous[1].returned
          /\ score # <<>> =>
                /\ score[1] = generate_compliance_score(previous[1].returned)
                /\ previous[1].score # <<>> => score = previous[1].score

\* an audit that found the bias and PII issues returned and was scored, a
\* later call raised, and the score was computed again
C27_Witness_RaisedAfterScoredAudit ==
    /\ RaisedAfterReturn
    /\ previous[1].returned["summary"]["issues_found"] = <<ISSUE_BIAS, ISSUE_PII>>
    /\ previous[1].score = <<40>>
    /\ score = <<40>>

\* C28: as long as no audit has completed on the pipeline, the stored
\* result is empty and generate_compliance_score returns 0.0; once an audit
\* has completed the stored result is never empty again and the score is
\* max(0, 100 - the weights of that audit's issues).
C28_ZeroBeforeFirstAudit ==
    /\ [](/\ Returned => results # EmptyDict
          /\ score # <<>> =>
                IF results = EmptyDict THEN score = <<0>>
                ELSE score[1] = IF TotalDeduction >= 100 THEN 0 ELSE 100 - TotalDeduction)
    /\ [][results # EmptyDict => results' # EmptyDict]_vars

\* the score was computed on a pipeline whose only call so far raised
C28_Witness_ScoredBeforeFirstAudit ==
    /\ results = EmptyDict
    /\ given.dataset = NoDataset
    /\ score = <<0>>

\* the issue lists a summary can hold: each issue at most once, in the order
\* bias, PII, hallucination
OrderedIssueLists ==
    { (IF b THEN <<ISSUE_BIAS>> ELSE <<>>) \o (IF p THEN <<ISSUE_PII>> ELSE <<>>)
         \o (IF h THEN <<ISSUE_HALLUCINATION>> ELSE <<>>) : b, p, h \in BOOLEAN }

\* C29: in every summary the pipeline stored, the risk tier HIGH comes with
\* the bias issue and the status FAILED, the issue list holds each issue at
\* most once in the order bias, PII, hallucination, and the score is never
\* below 10.
C29_SummaryShapeBoundsScore ==
    results # EmptyDict =>
       /\ results["summary"]["risk_level"] = "HIGH" =>
             /\ HasIssue(ISSUE_BIAS)
             /\ results["summary"]["overall_status"] = "FAILED"
       /\ results["summary"]["issues_found"] \in OrderedIssueLists
       /\ score # <<>> => score[1] >= 10

\* an audit with all three issues has been scored
C29_Witness_AllThreeIssues ==
    /\ Returned
    /\ results["summary"]["issues_found"] = <<ISSUE_BIAS, ISSUE_PII, ISSUE_HALLUCINATION>>
    /\ score = <<10>>

----------------------------------------------------------------------------
(* Properties of the weight an issue string deducts *)

\* 'Bias and PII found'
IssueWithTwoKeywords ==
    <<"B","i","a","s"," ","a","n","d"," ","P","I","I"," ","f","o","u","n","d">>

\* the lower-cased issue text holds the keyword
Holds(issue, keyword) == Contains(Lower(issue), keyword)

\* C30: an issue string deducts one weight at most, that of the first of the
\* keywords bias, pii, hallucination it holds: a one-issue list scores 60,
\* 80, 70 or 100 by that priority, 'Bias and PII found' deducts 40 only, a
\* list of strings without keyword deducts nothing, and no list deducts
\* more than 40 for each of its strings.
C30_OneWeightPerIssueByPriority ==
    score # <<>> =>
       /\ Len(StoredIssues) = 1 =>
             score[1] = IF Holds(StoredIssues[1], KW_BIAS) THEN 60
                        ELSE IF Holds(StoredIssues[1], KW_PII) THEN 80
                        ELSE IF Holds(StoredIssues[1], KW_HALLUCINATION) THEN 70
                        ELSE 100
       /\ StoredIssues = <<IssueWithTwoKeywords>> => score = <<60>>
       /\ (\A i \in 1..Len(StoredIssues) :
              \A k \in {KW_BIAS, KW_PII, KW_HALLUCINATION} : ~Holds(StoredIssues[i], k))
             => score = <<100>>
       /\ 100 - score[1] <= 40 * Len(StoredIssues)

\* the score of the one issue 'Bias and PII found' has been computed
C30_Witness_TwoKeywordsOneWeight ==
    /\ StoredIssues = <<IssueWithTwoKeywords>>
    /\ Holds(IssueWithTwoKeywords, KW_BIAS) /\ Holds(IssueWithTwoKeywords, KW_PII)
    /\ score = <<60>>

====
